---- MODULE Spec2Model ----
(***************************************************************************)
(* Model of the CSV matching engine: the string matcher                    *)
(* (modules/engine/matcher.py), the row processor                          *)
(* (modules/engine/processor_utils.py) and the matching worker with its    *)
(* conflict resolver (modules/engine/csv_processor.py).                    *)
(*                                                                         *)
(* Representation.                                                         *)
(*  - A Python str is a sequence of one-character strings; "" is << >>.    *)
(*  - None is the value None.                                              *)
(*  - A Python float is a fixed-point integer counting units of 1/FIX.     *)
(*    FIX is twice 10^4, so every decimal literal of the program           *)
(*    (0.8, 0.9, 0.85, ...) is exact and round(x, 4) is a real rounding    *)
(*    (to an even number of units).  Products and quotients truncate.      *)
(*  - A cell that holds either "" or a float (the similarity column) is a  *)
(*    tagged record, see EmptyStr and Float.                               *)
(***************************************************************************)
EXTENDS Integers, Sequences, FiniteSets, TLC

----------------------------------------------------------------------------
(* Python values *)

None == <<"None">>

FIX == 2 * 10000

Float(n) == [tag |-> "float", val |-> n]
NoneScore == [tag |-> "None", val |-> 0]
EmptyStr == [tag |-> "str", val |-> 0]

Max(x, y) == IF x >= y THEN x ELSE y
Min(x, y) == IF x <= y THEN x ELSE y
Abs(x) == IF x >= 0 THEN x ELSE 0 - x

\* x * y and x / y on fixed-point floats
MulFix(x, y) == (x * y) \div FIX
DivFix(x, y) == (x * FIX) \div y
\* max(0.0, min(1.0, x))
Clamp01(x) == Max(0, Min(FIX, x))

\* `x or ""` for a str-or-None x
OrEmpty(x) == IF x = None \/ x = << >> THEN << >> ELSE x

----------------------------------------------------------------------------
(* matcher.py: constants *)

SIM_THRESHOLD == (5 * FIX) \div 10
TOKEN_SIM_THRESHOLD == (8 * FIX) \div 10
NOISE_PENALTY_STRENGTH == (7 * FIX) \div 10
POSITION_DECAY == (3 * FIX) \div 10
MAX_HEAVY_CANDIDATES == 64
STOPWORDS == { <<"a", "o">>, <<"o", "o", "o">> }

----------------------------------------------------------------------------
(* matcher.py: tokenize *)

WordChars == {"a", "o", "A"}
Lower(c) == IF c = "A" THEN "a" ELSE c

RECURSIVE LowerStr(_)
LowerStr(s) == IF s = << >> THEN << >>
               ELSE <<Lower(Head(s))>> \o LowerStr(Tail(s))

\* re.findall(r"\w+", s): the maximal runs of word characters, in order
RECURSIVE FindWords(_, _)
FindWords(s, cur) ==
    IF s = << >>
    THEN IF cur = << >> THEN << >> ELSE <<cur>>
    ELSE IF Head(s) \in WordChars
         THEN FindWords(Tail(s), Append(cur, Head(s)))
         ELSE (IF cur = << >> THEN << >> ELSE <<cur>>) \o FindWords(Tail(s), << >>)

tokenize(text) == FindWords(LowerStr(OrEmpty(text)), << >>)

\* str.strip(): drop leading and trailing whitespace
RECURSIVE LStrip(_)
LStrip(s) == IF s # << >> /\ Head(s) = " " THEN LStrip(Tail(s)) ELSE s
RECURSIVE RStrip(_)
RStrip(s) == IF s # << >> /\ s[Len(s)] = " " THEN RStrip(SubSeq(s, 1, Len(s) - 1)) ELSE s
strip(s) == RStrip(LStrip(s))

----------------------------------------------------------------------------
(* matcher.py: shift_weight, _token_position_weight *)

shift_weight(pos_a, pos_b, max_len) ==
    IF max_len <= 0 THEN FIX
    ELSE LET base == Max(0, FIX - DivFix(Abs(pos_a - pos_b), max_len))
         IN  FIX \div 2 + MulFix(FIX \div 2, base)

_token_position_weight(index, length) ==
    IF length <= 1 \/ POSITION_DECAY <= 0 THEN FIX
    ELSE LET rel_pos == DivFix(index, length - 1)
         IN  FIX - MulFix(POSITION_DECAY, rel_pos)

----------------------------------------------------------------------------
(* matcher.py: _token_similarity, with difflib.SequenceMatcher.ratio *)

startswith(a, b) == Len(b) <= Len(a) /\ SubSeq(a, 1, Len(b)) = b
\* b in a
contains(a, b) ==
    \E i \in 1..(Len(a) - Len(b) + 1) : SubSeq(a, i, i + Len(b) - 1) = b

\* length of the common run of a from i and b from j
RECURSIVE RunLen(_, _, _, _)
RunLen(a, i, b, j) ==
    IF i > Len(a) \/ j > Len(b) \/ a[i] # b[j] THEN 0
    ELSE 1 + RunLen(a, i + 1, b, j + 1)

\* SequenceMatcher.find_longest_match without junk: the longest common
\* block, the one starting earliest in a, then earliest in b
find_longest_match(a, b) ==
    LET blocks == { [i |-> i, j |-> j, k |-> RunLen(a, i, b, j)] :
                        i \in 1..Len(a), j \in 1..Len(b) }
    IN  CHOOSE m \in blocks :
            \A n \in blocks :
                \/ m.k > n.k
                \/ m.k = n.k /\ m.i < n.i
                \/ m.k = n.k /\ m.i = n.i /\ m.j <= n.j

\* total size of SequenceMatcher.get_matching_blocks
RECURSIVE MatchingSize(_, _)
MatchingSize(a, b) ==
    IF a = << >> \/ b = << >> THEN 0
    ELSE LET m == find_longest_match(a, b)
         IN  IF m.k = 0 THEN 0
             ELSE m.k
                  + MatchingSize(SubSeq(a, 1, m.i - 1), SubSeq(b, 1, m.j - 1))
                  + MatchingSize(SubSeq(a, m.i + m.k, Len(a)),
                                 SubSeq(b, m.j + m.k, Len(b)))

\* SequenceMatcher(None, a, b).ratio() = 2.0 * matches / (len(a) + len(b))
SequenceRatio(a, b) == DivFix(2 * MatchingSize(a, b), Len(a) + Len(b))

_token_similarity(a, b) ==
    IF a = << >> \/ b = << >> THEN 0
    ELSE IF a = b THEN FIX
    ELSE IF startswith(a, b) \/ startswith(b, a) \/ contains(b, a) \/ contains(a, b)
         THEN (9 * FIX) \div 10
    ELSE LET max_len == Max(Len(a), Len(b))
             length_diff == Abs(Len(a) - Len(b))
         IN  IF DivFix(max_len - length_diff, max_len) < TOKEN_SIM_THRESHOLD THEN 0
             ELSE Clamp01(SequenceRatio(a, b))

----------------------------------------------------------------------------
(* matcher.py: _compute_document_frequencies, _token_idf *)

Range(seq) == { seq[i] : i \in DOMAIN seq }

RECURSIVE SumSeq(_)
SumSeq(seq) == IF seq = << >> THEN 0 ELSE Head(seq) + SumSeq(Tail(seq))

_compute_document_frequencies(candidates_tokens) ==
    LET docs == { i \in DOMAIN candidates_tokens : candidates_tokens[i] # << >> }
        toks == UNION { Range(candidates_tokens[i]) : i \in docs }
    IN  [ df |-> [ t \in toks |->
                     Cardinality({ i \in docs : t \in Range(candidates_tokens[i]) }) ],
          doc_count |-> Cardinality(docs) ]

\* math.log(1.0 + N / df) in units of 1/FIX, for 1 <= df <= N <= 6
LogTable ==
    << <<13863>>,
       <<21972, 13863>>,
       <<27726, 18326, 13863>>,
       <<32189, 21972, 16946, 13863>>,
       <<35835, 25055, 19617, 16219, 13863>>,
       <<38918, 27726, 21972, 18326, 15769, 13863>> >>

_token_idf(token, df, doc_count) ==
    IF doc_count <= 0 THEN FIX
    ELSE LET df_t == IF token \in DOMAIN df THEN df[token] ELSE 1
             base_idf == LogTable[doc_count][df_t]
         IN  IF token \in STOPWORDS
             THEN Max(MulFix(base_idf, FIX \div 10), FIX \div 100)
             ELSE base_idf

----------------------------------------------------------------------------
(* matcher.py: _directional_similarity *)

\* the inner loop over target tokens for one source token: best is
\* [idx, contrib], idx = 0 standing for best_idx = None
RECURSIVE ScanTargets(_, _, _, _, _, _)
ScanTargets(src_tok, i, target_tokens, j, len_max, best) ==
    IF j > Len(target_tokens) THEN best
    ELSE LET sim == _token_similarity(src_tok, target_tokens[j])
             pos_align == shift_weight(i - 1, j - 1, len_max)
             combined == MulFix(sim, pos_align)
         IN  IF sim >= TOKEN_SIM_THRESHOLD /\ combined > best.contrib
             THEN ScanTargets(src_tok, i, target_tokens, j + 1, len_max,
                              [idx |-> j, contrib |-> combined])
             ELSE ScanTargets(src_tok, i, target_tokens, j + 1, len_max, best)

_directional_similarity(source_tokens, target_tokens, df, doc_count) ==
    IF source_tokens = << >> \/ target_tokens = << >> THEN 0
    ELSE
    LET src_len == Len(source_tokens)
        tgt_len == Len(target_tokens)
        \* the return statement, from the three accumulated sums
        Score(total_weight, matched_weight, total_extra) ==
            IF total_weight <= 0 THEN 0
            ELSE
            LET coverage == DivFix(matched_weight, total_weight)
                noise_penalty ==
                    IF NOISE_PENALTY_STRENGTH > 0 /\ tgt_len > 0
                       /\ total_extra > 0 /\ matched_weight > 0
                    THEN LET noise_ratio == DivFix(total_extra, matched_weight + total_extra)
                             length_ratio == DivFix(src_len, src_len + tgt_len)
                             effective_noise ==
                                 MulFix(noise_ratio, MulFix(length_ratio, length_ratio))
                         IN  FIX - MulFix(NOISE_PENALTY_STRENGTH, effective_noise)
                    ELSE FIX
            IN  Clamp01(MulFix(coverage, noise_penalty))
        \* the sums, from the token weights and each source token's best
        \* target (the state the main loop leaves behind)
        Sums(src_token_weights, best) ==
            LET used_target_indices == { best[i].idx : i \in 1..src_len } \ {0}
            IN  Score(SumSeq(src_token_weights),
                      SumSeq([ i \in 1..src_len |->
                                 IF best[i].idx # 0
                                 THEN MulFix(src_token_weights[i], best[i].contrib)
                                 ELSE 0 ]),
                      SumSeq([ j \in 1..tgt_len |->
                                 IF j \in used_target_indices THEN 0
                                 ELSE MulFix(_token_idf(target_tokens[j], df, doc_count),
                                             _token_position_weight(j - 1, tgt_len)) ]))
    IN  Sums([ i \in 1..src_len |->
                 MulFix(_token_idf(source_tokens[i], df, doc_count),
                        _token_position_weight(i - 1, src_len)) ],
             [ i \in 1..src_len |->
                 ScanTargets(source_tokens[i], i, target_tokens, 1,
                             Max(src_len, tgt_len), [idx |-> 0, contrib |-> 0]) ])

----------------------------------------------------------------------------
(* matcher.py: best_match *)

\* the nested helper _first_token_prefix_ratio
RECURSIVE CommonPrefixLen(_, _)
CommonPrefixLen(a, b) ==
    IF a = << >> \/ b = << >> \/ Head(a) # Head(b) THEN 0
    ELSE 1 + CommonPrefixLen(Tail(a), Tail(b))

_first_token_prefix_ratio(src_tokens, tgt_tokens) ==
    IF src_tokens = << >> \/ tgt_tokens = << >> THEN 0
    ELSE LET a == src_tokens[1]
             b == tgt_tokens[1]
         IN  IF a = << >> \/ b = << >> THEN 0
             ELSE DivFix(CommonPrefixLen(a, b), Max(Len(a), Len(b)))

\* seq[:n]
Take(seq, n) == SubSeq(seq, 1, Min(n, Len(seq)))

\* list.sort(key = cheap score, reverse = True): stable, descending. The
\* elements with the highest score come first, in list order, then those
\* with the next score, and so on.
RECURSIVE SortByScores(_, _)
SortByScores(seq, scores) ==
    IF scores = {} THEN << >>
    ELSE LET top == CHOOSE v \in scores : \A w \in scores : w <= v
             HasTop(e) == e.cheap = top
         IN  SelectSeq(seq, HasTop) \o SortByScores(seq, scores \ {top})
SortByCheap(seq) == SortByScores(seq, { seq[i].cheap : i \in DOMAIN seq })

\* the cheap pre-filter: the candidates that pass, as [cheap, text, tokens]
ScoredCandidates(ref_tokens, tokenized_candidates) ==
    LET ref_token_set == Range(ref_tokens)
        overlap(c) == IF ref_token_set # {}
                      THEN DivFix(Cardinality(ref_token_set \cap Range(c.tokens)),
                                  Cardinality(ref_token_set))
                      ELSE 0
        prefix_ratio(c) == _first_token_prefix_ratio(ref_tokens, c.tokens)
        Passes(c) == overlap(c) > 0 \/ prefix_ratio(c) >= (6 * FIX) \div 10
        Scored(kept) ==
            [ i \in DOMAIN kept |->
                [cheap |-> Max(overlap(kept[i]), prefix_ratio(kept[i])),
                 text |-> kept[i].text, tokens |-> kept[i].tokens] ]
    IN  Scored(SelectSeq(tokenized_candidates, Passes))

\* LimitedCandidates cutting the passing candidates in pool order
LimitedCandidatesUnsorted(ref_tokens, tokenized_candidates) ==
    LET scored_candidates == ScoredCandidates(ref_tokens, tokenized_candidates)
        ranked == Take(scored_candidates, MAX_HEAVY_CANDIDATES)
    IN  IF scored_candidates # << >>
        THEN [ i \in DOMAIN ranked |->
                 [text |-> ranked[i].text, tokens |-> ranked[i].tokens] ]
        ELSE Take(tokenized_candidates, MAX_HEAVY_CANDIDATES)

\* LimitedCandidates keeping every candidate that passed the filter
LimitedCandidatesAllScored(ref_tokens, tokenized_candidates) ==
    LET scored_candidates == ScoredCandidates(ref_tokens, tokenized_candidates)
        ranked == SortByCheap(scored_candidates)
    IN  IF scored_candidates # << >>
        THEN [ i \in DOMAIN ranked |->
                 [text |-> ranked[i].text, tokens |-> ranked[i].tokens] ]
        ELSE Take(tokenized_candidates, MAX_HEAVY_CANDIDATES)

LimitedCandidates(ref_tokens, tokenized_candidates) ==
    LET scored_candidates == ScoredCandidates(ref_tokens, tokenized_candidates)
        ranked == Take(SortByCheap(scored_candidates), MAX_HEAVY_CANDIDATES)
    IN  IF scored_candidates # << >>
        THEN [ i \in DOMAIN ranked |->
                 [text |-> ranked[i].text, tokens |-> ranked[i].tokens] ]
        ELSE Take(tokenized_candidates, MAX_HEAVY_CANDIDATES)

\* the symmetric, length-aware combination of the two directional scores
CombinedScore(ref_tokens, cand_tokens, df, doc_count) ==
    LET min_len == Min(Len(ref_tokens), Len(cand_tokens))
        max_len == Max(Len(ref_tokens), Len(cand_tokens))
        length_ratio == IF max_len > 0 THEN DivFix(min_len, max_len) ELSE FIX
        Combine(score_ref_to_cand, score_cand_to_ref, alpha) ==
            LET short_side_score == Max(score_ref_to_cand, score_cand_to_ref)
                long_side_score == Min(score_ref_to_cand, score_cand_to_ref)
                beta == FIX - alpha
            IN  Clamp01(MulFix(alpha, short_side_score) + MulFix(beta, long_side_score))
    IN  Combine(_directional_similarity(ref_tokens, cand_tokens, df, doc_count),
                _directional_similarity(cand_tokens, ref_tokens, df, doc_count),
                (85 * FIX) \div 100 + MulFix((15 * FIX) \div 100, length_ratio))

\* the selection loop: best is [score, candidate], candidate = None at first
RECURSIVE SelectBest(_, _, _, _, _)
RECURSIVE SelectBestLastTie(_, _, _, _, _)
\* SelectBest letting a later candidate take over an equal score
SelectBestLastTie(ref_tokens, limited_candidates, df, doc_count, best) ==
    IF limited_candidates = << >> THEN best
    ELSE LET c == Head(limited_candidates)
             Keep(score) ==
                 IF c.tokens # << >> /\ score >= best.score /\ score > 0
                 THEN [score |-> score, candidate |-> c.text]
                 ELSE best
         IN  SelectBestLastTie(ref_tokens, Tail(limited_candidates), df, doc_count,
                               Keep(CombinedScore(ref_tokens, c.tokens, df, doc_count)))

SelectBest(ref_tokens, limited_candidates, df, doc_count, best) ==
    IF limited_candidates = << >> THEN best
    ELSE LET c == Head(limited_candidates)
             Keep(score) ==
                 IF c.tokens # << >> /\ score > best.score
                 THEN [score |-> score, candidate |-> c.text]
                 ELSE best
         IN  SelectBest(ref_tokens, Tail(limited_candidates), df, doc_count,
                        Keep(CombinedScore(ref_tokens, c.tokens, df, doc_count)))

\* round(x, 4): to the nearest multiple of 1/10^4, halves to even
Round4(x) ==
    LET unit == FIX \div 10000
        q == x \div unit
        r == x % unit
    IN  IF 2 * r < unit THEN q * unit
        ELSE IF 2 * r > unit THEN (q + 1) * unit
        ELSE IF q % 2 = 0 THEN q * unit ELSE (q + 1) * unit

NoMatch == [match |-> None, score |-> NoneScore]

\* the selection loop stopping at the first candidate that reaches th
RECURSIVE SelectFirstAbove(_, _, _, _, _)
SelectFirstAbove(ref_tokens, limited_candidates, df, doc_count, th) ==
    IF limited_candidates = << >> THEN [score |-> 0, candidate |-> None]
    ELSE LET c == Head(limited_candidates)
             score == CombinedScore(ref_tokens, c.tokens, df, doc_count)
         IN  IF c.tokens # << >> /\ score > 0 /\ score >= th
             THEN [score |-> score, candidate |-> c.text]
             ELSE SelectFirstAbove(ref_tokens, Tail(limited_candidates), df, doc_count, th)

\* best_match returning the first candidate at or above the threshold
best_match_first_above(ref, candidates, threshold) ==
    LET th == IF threshold = NoneScore THEN SIM_THRESHOLD ELSE threshold.val
        ref_tokens == tokenize(ref)
        tokenized_candidates ==
            [ i \in DOMAIN candidates |->
                [text |-> candidates[i], tokens |-> tokenize(candidates[i])] ]
        limited_candidates == LimitedCandidates(ref_tokens, tokenized_candidates)
        stats == _compute_document_frequencies(
                     [ i \in DOMAIN limited_candidates |-> limited_candidates[i].tokens ])
        best == SelectFirstAbove(ref_tokens, limited_candidates, stats.df,
                                 stats.doc_count, th)
    IN  IF candidates = << >> \/ ref_tokens = << >> \/ best.candidate = None THEN NoMatch
        ELSE [match |-> best.candidate, score |-> Float(Round4(best.score))]

\* threshold is Float(t), or NoneScore for the default
best_match(ref, candidates, threshold) ==
    LET th == IF threshold = NoneScore THEN SIM_THRESHOLD ELSE threshold.val
        candidates_list == candidates
        \* the early returns and the final return, in the code's order
        Result(ref_tokens, best) ==
            IF candidates_list = << >> THEN NoMatch
            ELSE IF ref_tokens = << >> THEN NoMatch
            ELSE IF best.score < th \/ best.candidate = None THEN NoMatch
            ELSE [match |-> best.candidate, score |-> Float(Round4(best.score))]
        Select(ref_tokens, limited_candidates, stats) ==
            Result(ref_tokens,
                   SelectBest(ref_tokens, limited_candidates, stats.df, stats.doc_count,
                              [score |-> 0, candidate |-> None]))
        Limit(ref_tokens, limited_candidates) ==
            Select(ref_tokens, limited_candidates,
                   _compute_document_frequencies(
                       [ i \in DOMAIN limited_candidates |-> limited_candidates[i].tokens ]))
        Tokenized(ref_tokens, tokenized_candidates) ==
            Limit(ref_tokens, LimitedCandidates(ref_tokens, tokenized_candidates))
    IN  Tokenized(tokenize(ref),
                  [ i \in DOMAIN candidates_list |->
                      [text |-> candidates_list[i], tokens |-> tokenize(candidates_list[i])] ])

----------------------------------------------------------------------------
(* Python dicts: a dict is a function from its keys.  CSV rows map header  *)
(* names to str or None; result rows map output column names to cells.     *)
(* The CSV headers are taken to differ from the three configured output    *)
(* column names.                                                           *)

EmptyDict == << >>
\* d.get(k, default)
Get(d, k, default) == IF k \in DOMAIN d THEN d[k] ELSE default
\* d[k] = v
Put(d, k, v) == [ x \in DOMAIN d \cup {k} |-> IF x = k THEN v ELSE d[x] ]

\* self.column_names.get("CSV_COLUMN_...", default)
ref_col_name(column_names) == Get(column_names, "CSV_COLUMN_REFERENCE", "reference")
match_col_name(column_names) == Get(column_names, "CSV_COLUMN_BEST_MATCH", "best_match")
similarity_col_name(column_names) == Get(column_names, "CSV_COLUMN_SIMILARITY", "similarity")

----------------------------------------------------------------------------
(* processor_utils.py: process_single_match *)

\* _make_output_key; column_mapping is EmptyDict when absent (None)
_make_output_key(column_mapping, col, source) ==
    IF DOMAIN column_mapping # {}
    THEN Get(column_mapping, <<source, col>>, col)
    ELSE col

\* for col in cols: if col in row: result[key(col)] = row[col]
RECURSIVE CopyColumns(_, _, _, _, _)
CopyColumns(result, cols, row, source, column_mapping) ==
    IF cols = << >> THEN result
    ELSE LET col == Head(cols)
             key == _make_output_key(column_mapping, col, source)
         IN  CopyColumns(IF col \in DOMAIN row THEN Put(result, key, row[col]) ELSE result,
                         Tail(cols), row, source, column_mapping)

candidate_names(candidate_rows, cand_col) ==
    [ i \in DOMAIN candidate_rows |-> OrEmpty(Get(candidate_rows[i], cand_col, << >>)) ]

\* the first candidate row whose match field equals match; a missing
\* row (matched_row = None) is the empty dict, which is as falsy
MatchedRow(candidate_rows, cand_col, match) ==
    LET hits == { i \in DOMAIN candidate_rows :
                    OrEmpty(Get(candidate_rows[i], cand_col, << >>)) = match }
    IN  IF hits = {} THEN EmptyDict
        ELSE candidate_rows[CHOOSE i \in hits : \A j \in hits : i <= j]

\* BasicColumns with the score written as best_match returned it
BasicColumnsRawScore(column_names, ref_name, bm) ==
    Put(Put(Put(EmptyDict,
        ref_col_name(column_names), ref_name),
        match_col_name(column_names), OrEmpty(bm.match)),
        similarity_col_name(column_names), bm.score)

\* the three basic columns of a result row
BasicColumns(column_names, ref_name, bm) ==
    Put(Put(Put(EmptyDict,
        ref_col_name(column_names), ref_name),
        match_col_name(column_names), OrEmpty(bm.match)),
        similarity_col_name(column_names),
            IF bm.score # NoneScore THEN bm.score ELSE EmptyStr)

\* the rest of a result row: the selected columns of both sides
SelectedColumns(result, bm, ref_row, selected_ref_cols, candidate_rows, cand_col, selected_cand_cols, column_mapping) ==
    LET with_ref == CopyColumns(result, selected_ref_cols, ref_row, "ref", column_mapping)
        match == bm.match
        matched_row == MatchedRow(candidate_rows, cand_col, match)
    IN  IF match # None /\ match # << >> /\ DOMAIN matched_row # {}
        THEN CopyColumns(with_ref, selected_cand_cols, matched_row, "cand", column_mapping)
        ELSE with_ref

----------------------------------------------------------------------------
(* processor_utils.py: _norm, build_output_column_mapping *)

\* the character U+FEFF
BOM == "BOM"
\* s.replace(U+FEFF, "")
RemoveBOM(s) ==
    LET NotBOM(c) == c # BOM
    IN  SelectSeq(s, NotBOM)
_norm(col) == IF col = << >> THEN << >> ELSE LowerStr(strip(RemoveBOM(col)))

\* str(n) for n >= 0
RECURSIVE Decimal(_)
Decimal(n) ==
    LET digit == <<"0", "1", "2", "3", "4", "5", "6", "7", "8", "9">>[(n % 10) + 1]
    IN  IF n < 10 THEN <<digit>> ELSE Decimal(n \div 10) \o <<digit>>
\* f"{base}({count})"
Suffixed(base, count) == base \o <<"(">> \o Decimal(count) \o <<")">>

\* the first try of _assign taken as it is, without the uniqueness loop
SettleOnce(base, count, out_name, used_names) == [count |-> count, out_name |-> out_name]

\* the loop `while out_name in used_names`
RECURSIVE Settle(_, _, _, _)
Settle(base, count, out_name, used_names) ==
    IF out_name \in used_names
    THEN Settle(base, count + 1, Suffixed(base, count + 1), used_names)
    ELSE [count |-> count, out_name |-> out_name]

\* the nested function _assign, on the state [used_names, counters, mapping]
_assign(st, source, col, selected_ref, selected_cand, shared_norms) ==
    IF (source = "ref" /\ col \notin selected_ref) \/ (source # "ref" /\ col \notin selected_cand)
    THEN st
    ELSE LET raw_base == RemoveBOM(col)
             n == _norm(col)
             base == IF n \in shared_norms /\ raw_base # << >>
                     THEN IF source = "ref"
                          THEN raw_base \o <<"_", "r", "e", "f">>
                          ELSE raw_base \o <<"_", "c", "a", "n", "d">>
                     ELSE raw_base
             norm_key == IF _norm(base) # << >> THEN _norm(base)
                         ELSE <<"_", "_", "e", "m", "p", "t", "y", "_", "_">>
             count == Get(st.counters, norm_key, 0) + 1
             Assigned(settled) ==
                 [used_names |-> st.used_names \cup {settled.out_name},
                  counters |-> Put(st.counters, norm_key, settled.count),
                  mapping |-> Put(st.mapping, <<source, col>>, settled.out_name)]
         IN  Assigned(Settle(base, count,
                             IF count = 1 THEN base ELSE Suffixed(base, count),
                             st.used_names))

\* for col in columns_order: _assign(source, col)
RECURSIVE AssignAll(_, _, _, _, _, _)
AssignAll(st, source, columns_order, selected_ref, selected_cand, shared_norms) ==
    IF columns_order = << >> THEN st
    ELSE AssignAll(_assign(st, source, Head(columns_order), selected_ref, selected_cand,
                           shared_norms),
                   source, Tail(columns_order), selected_ref, selected_cand, shared_norms)

build_output_column_mapping(ref_columns_order, cand_columns_order, selected_ref_cols, selected_cand_cols, reserved_names) ==
    LET selected_ref == selected_ref_cols
        selected_cand == selected_cand_cols
        ref_norms == { _norm(c) : c \in Range(ref_columns_order) \cap selected_ref }
        cand_norms == { _norm(c) : c \in Range(cand_columns_order) \cap selected_cand }
        shared_norms == { n \in ref_norms \cap cand_norms : n # << >> }
        Cand(st) == AssignAll(st, "cand", cand_columns_order, selected_ref, selected_cand,
                              shared_norms)
    IN  Cand(AssignAll([used_names |-> reserved_names, counters |-> EmptyDict,
                        mapping |-> EmptyDict],
                       "ref", ref_columns_order, selected_ref, selected_cand,
                       shared_norms)).mapping


process_single_match(ref_row, ref_col, selected_ref_cols, candidate_rows, cand_col, selected_cand_cols, threshold, column_names, column_mapping) ==
    LET ref_name == OrEmpty(Get(ref_row, ref_col, << >>))
        bm == best_match(ref_name, candidate_names(candidate_rows, cand_col), threshold)
    IN  SelectedColumns(BasicColumns(column_names, ref_name, bm), bm, ref_row,
                        selected_ref_cols, candidate_rows, cand_col, selected_cand_cols, column_mapping)

\* SequentialRow writing the score as best_match returned it
SequentialRowRawScore(ref_row, ref_col, selected_ref_cols, candidate_rows, cand_col, selected_cand_cols, threshold, column_names) ==
    LET ref_name == OrEmpty(Get(ref_row, ref_col, << >>))
        bm == best_match(ref_name, candidate_names(candidate_rows, cand_col), threshold)
    IN  SelectedColumns(BasicColumnsRawScore(column_names, ref_name, bm), bm, ref_row,
                        selected_ref_cols, candidate_rows, cand_col, selected_cand_cols, EmptyDict)

\* csv_processor.py, MatchingWorker.run: the body of the sequential loop
SequentialRow(ref_row, ref_col, selected_ref_cols, candidate_rows, cand_col, selected_cand_cols, threshold, column_names) ==
    LET ref_name == OrEmpty(Get(ref_row, ref_col, << >>))
        bm == best_match(ref_name, candidate_names(candidate_rows, cand_col), threshold)
    IN  SelectedColumns(BasicColumns(column_names, ref_name, bm), bm, ref_row,
                        selected_ref_cols, candidate_rows, cand_col, selected_cand_cols, EmptyDict)

----------------------------------------------------------------------------
(* csv_processor.py: MatchingWorker._resolve_candidate_conflicts *)

\* float(raw_score) if raw_score != "" else 0.0
RowScore(row, column_names) ==
    LET raw_score == Get(row, similarity_col_name(column_names), EmptyStr)
    IN  IF raw_score # EmptyStr THEN raw_score.val ELSE 0

\* (row.get(match_col_name) or "").strip()
RowCand(row, column_names) == strip(OrEmpty(Get(row, match_col_name(column_names), None)))

\* ScanRow with the previous holder not marked as a loser when it is beaten
ScanRowKeepPrev(st, idx, row, column_names) ==
    LET cand == strip(OrEmpty(Get(row, match_col_name(column_names), None)))
        score == RowScore(row, column_names)
    IN  IF cand = << >> THEN st
        ELSE IF cand \notin DOMAIN st.best_for_candidate
                \/ score > st.best_for_candidate[cand].score
             THEN [st EXCEPT !.best_for_candidate =
                       Put(@, cand, [score |-> score, idx |-> idx])]
        ELSE [st EXCEPT !.losers = @ \cup {idx}]

\* ScanRow with the holder not replaced by the row that beats it
ScanRowNoUpdate(st, idx, row, column_names) ==
    LET cand == strip(OrEmpty(Get(row, match_col_name(column_names), None)))
        score == RowScore(row, column_names)
    IN  IF cand = << >> THEN st
        ELSE IF cand \notin DOMAIN st.best_for_candidate
             THEN [st EXCEPT !.best_for_candidate =
                       Put(@, cand, [score |-> score, idx |-> idx])]
        ELSE IF score > st.best_for_candidate[cand].score
             THEN [st EXCEPT !.losers = @ \cup {st.best_for_candidate[cand].idx}]
        ELSE [st EXCEPT !.losers = @ \cup {idx}]

\* ScanRow with a tie going to the later row (score >= prev[0])
ScanRowLaterWinsTies(st, idx, row, column_names) ==
    LET cand == strip(OrEmpty(Get(row, match_col_name(column_names), None)))
        score == RowScore(row, column_names)
    IN  IF cand = << >> THEN st
        ELSE IF cand \notin DOMAIN st.best_for_candidate
             THEN [st EXCEPT !.best_for_candidate =
                       Put(@, cand, [score |-> score, idx |-> idx])]
        ELSE IF score >= st.best_for_candidate[cand].score
             THEN [best_for_candidate |->
                       Put(st.best_for_candidate, cand, [score |-> score, idx |-> idx]),
                   losers |-> st.losers \cup {st.best_for_candidate[cand].idx}]
        ELSE [st EXCEPT !.losers = @ \cup {idx}]

\* ScanRow with one holder for all candidate strings
ScanRowOneHolder(st, idx, row, column_names) ==
    LET cand == IF RowCand(row, column_names) = << >> THEN << >> ELSE <<"*">>
        score == RowScore(row, column_names)
        prev == st.best_for_candidate[cand]
    IN  IF cand = << >> THEN st
        ELSE IF cand \notin DOMAIN st.best_for_candidate
             THEN [st EXCEPT !.best_for_candidate =
                       Put(@, cand, [score |-> score, idx |-> idx])]
        ELSE IF score > prev.score
             THEN [best_for_candidate |->
                       Put(st.best_for_candidate, cand, [score |-> score, idx |-> idx]),
                   losers |-> st.losers \cup {prev.idx}]
        ELSE [st EXCEPT !.losers = @ \cup {idx}]

\* one iteration of the scan; st = [best_for_candidate, losers], where
\* best_for_candidate maps a candidate string to [score, idx]
ScanRow(st, idx, row, column_names) ==
    LET cand == RowCand(row, column_names)
        score == RowScore(row, column_names)
        prev == st.best_for_candidate[cand]
    IN  IF cand = << >> THEN st
        ELSE IF cand \notin DOMAIN st.best_for_candidate
             THEN [st EXCEPT !.best_for_candidate =
                       Put(@, cand, [score |-> score, idx |-> idx])]
        ELSE IF score > prev.score
             THEN [best_for_candidate |->
                       Put(st.best_for_candidate, cand, [score |-> score, idx |-> idx]),
                   losers |-> st.losers \cup {prev.idx}]
        ELSE [st EXCEPT !.losers = @ \cup {idx}]

\* the loop of the scan.  No row is a loser before its own turn, so the
\* second test is never true; it makes TLC compute the state of the scan at
\* every turn instead of nesting one pending computation per row
RECURSIVE ScanRows(_, _, _, _)
ScanRows(st, idx, result_rows, column_names) ==
    IF idx > Len(result_rows) \/ idx \in st.losers THEN st
    ELSE ScanRows(ScanRow(st, idx, result_rows[idx], column_names),
                  idx + 1, result_rows, column_names)

\* for col in selected_cand_cols: if col in row: row[col] = ""
RECURSIVE ClearColumns(_, _)
ClearColumns(row, cols) ==
    IF cols = << >> THEN row
    ELSE ClearColumns(IF Head(cols) \in DOMAIN row THEN Put(row, Head(cols), << >>) ELSE row,
                      Tail(cols))

\* ClearRow with the similarity of a loser left in place
ClearRowKeepScore(row, selected_cand_cols, column_names) ==
    ClearColumns(Put(row, match_col_name(column_names), << >>), selected_cand_cols)

ClearRow(row, selected_cand_cols, column_names) ==
    ClearColumns(Put(Put(row, match_col_name(column_names), << >>),
                     similarity_col_name(column_names), EmptyStr),
                 selected_cand_cols)

Losers(result_rows, column_names) ==
    ScanRows([best_for_candidate |-> EmptyDict, losers |-> {}],
             1, result_rows, column_names).losers

_resolve_candidate_conflicts(result_rows, selected_cand_cols, column_names) ==
    IF result_rows = << >> THEN result_rows
    ELSE LET losers == Losers(result_rows, column_names)
         IN  IF losers = {} THEN result_rows
             ELSE [ idx \in DOMAIN result_rows |->
                      IF idx \in losers
                      THEN ClearRow(result_rows[idx], selected_cand_cols, column_names)
                      ELSE result_rows[idx] ]

----------------------------------------------------------------------------
(* State *)

VARIABLES
    \* MatchingWorker.run
    pc,                 \* position of the worker thread in run()
    interrupted,        \* QThread interruption flag, isInterruptionRequested()
    ref_file,           \* the reference CSV on disk: [ok, rows]
    cand_file,          \* the candidate CSV on disk: [ok, rows]
    cpus,               \* multiprocessing.cpu_count()
    selected_ref_cols,  \* self.selected_ref_cols, as the list run() makes of it
    selected_cand_cols, \* self.selected_cand_cols, likewise
    threshold,          \* self.threshold
    column_names,       \* self.column_names
    reference_rows,
    candidate_rows,
    result_rows,
    completion,         \* the pool's row tasks that have completed, in that order
    resolver_calls,     \* the lists run() has called _resolve_candidate_conflicts on
    processed,          \* results collected from the pool so far
    idx,                \* rows done by the sequential loop
    exc,                \* the exception travelling to the outer handler
    path,               \* which branch of run() the thread went through
    emitted,            \* the signals emitted so far, in order
    \* calls of best_match / process_single_match on one reference string
    m_ref, m_cands, m_out,
    \* calls of _resolve_candidate_conflicts on a list of raw result rows
    rr_raw, rr_rows, rr_prev, rr_pass,
    \* calls of _token_similarity through its lru_cache
    sim_cache,          \* the cached calls [a, b, value], least recently used first
    sim_ret,            \* the last call and what it returned, as a list of one record
    \* a call of build_output_column_mapping
    map_in,             \* its arguments
    map_ret,            \* the mapping it returned, as a list of one dict
    \* the application window (App) and the worker threads it has started
    matching_worker,    \* self.matching_worker: a thread, or 0 for None
    run_button,         \* self.run_button.isEnabled()
    save_button,        \* self.save_button.isEnabled()
    _last_results,      \* self._last_results: None or a list of rows
    threads,            \* where each MatchingWorker is in its life
    signals,            \* terminal signals queued for the window's thread
    pending_delete,     \* threads on which deleteLater() was called
    alive               \* the process has not been aborted

workerVars == <<pc, interrupted, ref_file, cand_file, cpus, threshold,
                reference_rows, candidate_rows, result_rows,
                completion, resolver_calls, processed, idx, exc, path, emitted, selected_ref_cols>>
configVars == <<selected_cand_cols, column_names>>
matchVars == <<m_ref, m_cands, m_out>>
resolveVars == <<rr_raw, rr_rows, rr_prev, rr_pass>>
simVars == <<sim_cache, sim_ret>>
mappingVars == <<map_in, map_ret>>
appVars == <<matching_worker, run_button, save_button, _last_results, threads, signals,
             pending_delete, alive>>
vars == <<workerVars, configVars, matchVars, resolveVars, simVars, mappingVars, appVars>>

----------------------------------------------------------------------------
(* Bounds and input domains *)

MaxRows == 3        \* reference rows in a file
MaxCandRows == 2    \* candidate rows in a file
MaxPool == 3        \* candidate strings in a best_match call
MaxRawRows == 4     \* raw result rows handed to the resolver
MaxCadenceRows == 11 \* reference rows in a run that shows the progress cadence

\* all sequences over S of length at most n
RECURSIVE SeqsUpTo(_, _)
SeqsUpTo(S, n) ==
    IF n = 0 THEN { << >> }
    ELSE LET shorter == SeqsUpTo(S, n - 1)
         IN  shorter \cup { Append(q, x) : q \in shorter, x \in S }

\* the match field and one more column
ref_col == "name"
cand_col == "name"

RefRowValues ==
    { [name |-> <<"a", " ", "o">>, id |-> <<"a">>],
      [name |-> <<"a">>,           id |-> <<"o">>],
      [name |-> None,              id |-> <<"a">>] }
CandRowValues ==
    { [name |-> <<"a", " ", "o">>, id |-> <<"o">>],
      [name |-> <<"o", " ", "a">>, id |-> <<"A">>] }

Unreadable == [ok |-> FALSE, rows |-> << >>]
RefFiles == {Unreadable} \cup { [ok |-> TRUE, rows |-> r] : r \in SeqsUpTo(RefRowValues, MaxRows) }
CandFiles == {Unreadable} \cup { [ok |-> TRUE, rows |-> r] : r \in SeqsUpTo(CandRowValues, MaxCandRows) }

ColumnSelections == { << >>, <<"id">> }
ColumnNames == { EmptyDict, [CSV_COLUMN_BEST_MATCH |-> "match"] }

MatchIdle == m_ref = << >> /\ m_cands = << >> /\ m_out = << >>
ResolveIdle == rr_raw = << >> /\ rr_rows = << >> /\ rr_prev = << >> /\ rr_pass = 0
SimIdle == sim_cache = << >> /\ sim_ret = << >>
MappingIdle == map_in = << >> /\ map_ret = << >>

\* app_window.py: the threads the window can start, and the window as its
\* constructor leaves it (lines 48, 52 and 211)
MaxWorkers == 3
Threads == 1..MaxWorkers
AppIdle ==
    /\ matching_worker = 0
    /\ run_button = TRUE
    /\ save_button = FALSE
    /\ _last_results = None
    /\ threads = [ w \in Threads |-> "new" ]
    /\ signals = << >>
    /\ pending_delete = {}
    /\ alive = TRUE

----------------------------------------------------------------------------
(* csv_processor.py: MatchingWorker.run *)

Progress(p, current, n) ==
    [sig |-> "progress_updated", progress |-> p, current |-> current, total |-> n]
Finished(rows) == [sig |-> "finished", result_rows |-> rows]
Error(msg) == [sig |-> "error", msg |-> msg]

total == Len(reference_rows)
num_workers == Min(cpus, 8)

Init ==
    /\ pc = "start"
    /\ interrupted = FALSE
    /\ ref_file \in RefFiles
    /\ cand_file \in CandFiles
    /\ cpus \in {1, 4}
    /\ selected_ref_cols \in ColumnSelections
    /\ selected_cand_cols \in ColumnSelections
    /\ threshold = Float((7 * FIX) \div 10)
    /\ column_names = EmptyDict
    /\ reference_rows = << >>
    /\ candidate_rows = << >>
    /\ result_rows = << >>
    /\ completion = << >>
    /\ resolver_calls = << >>
    /\ processed = 0
    /\ idx = 0
    /\ exc = ""
    /\ path = "none"
    /\ emitted = << >>
    /\ MatchIdle
    /\ ResolveIdle
    /\ SimIdle
    /\ MappingIdle
    /\ AppIdle

inputVars == <<ref_file, cand_file, cpus, selected_ref_cols, selected_cand_cols,
               threshold, column_names>>

\* `return` out of run()
Return == pc' = "done"
\* an exception reaching `except Exception as e` at the end of run()
Raise(msg) == pc' = "except" /\ exc' = msg

\* lines 64-69: the check before starting, then the reference file
ReadReference ==
    /\ pc = "start"
    /\ IF interrupted
       THEN Return /\ UNCHANGED <<reference_rows, exc>>
       ELSE IF ref_file.ok
            THEN pc' = "ref_read" /\ reference_rows' = ref_file.rows /\ UNCHANGED exc
            ELSE Raise("reference file unreadable") /\ UNCHANGED reference_rows
    /\ UNCHANGED <<completion, resolver_calls, interrupted, inputVars, candidate_rows, result_rows,
                   processed, idx, path, emitted, matchVars, resolveVars, simVars, mappingVars, appVars>>

\* lines 72-77: the check after the read, then the candidate file
ReadCandidates ==
    /\ pc = "ref_read"
    /\ IF interrupted
       THEN Return /\ UNCHANGED <<candidate_rows, exc>>
       ELSE IF cand_file.ok
            THEN pc' = "cand_read" /\ candidate_rows' = cand_file.rows /\ UNCHANGED exc
            ELSE Raise("candidate file unreadable") /\ UNCHANGED candidate_rows
    /\ UNCHANGED <<completion, resolver_calls, interrupted, inputVars, reference_rows, result_rows,
                   processed, idx, path, emitted, matchVars, resolveVars, simVars, mappingVars, appVars>>

\* ParallelExcept reporting the exception instead of passing
ParallelExceptEmits(e) ==
    /\ pc' = "done"
    /\ path' = "fallback"
    /\ completion' = << >>
    /\ emitted' = Append(emitted, Error(e))
    /\ UNCHANGED <<result_rows, processed, idx, exc>>

\* lines 133-137: `except Exception as e: pass`, then on to the sequential
\* code; result_rows is left as the parallel branch had it, and leaving
\* `with Pool(...)` has terminated the pool
ParallelExcept(e) ==
    /\ pc' = "seq_loop"
    /\ path' = "fallback"
    /\ completion' = << >>
    /\ idx' = 0
    /\ UNCHANGED <<result_rows, processed, emitted, exc>>

\* lines 80-104: the check after the read, result_rows = [], the choice of
\* the branch and the creation of the pool, which may raise
Dispatch ==
    /\ pc = "cand_read"
    /\ IF interrupted
       THEN Return /\ UNCHANGED <<result_rows, completion, processed, idx, path, emitted, exc>>
       ELSE IF num_workers > 1 /\ total > 1
            THEN \/ /\ pc' = "par_loop"
                    /\ path' = "parallel"
                    /\ result_rows' = << >>
                    /\ completion' = << >>
                    /\ processed' = 0
                    /\ UNCHANGED <<idx, emitted, exc>>
                 \/ /\ ParallelExcept("pool creation failed")
            ELSE /\ pc' = "seq_loop"
                 /\ path' = "sequential"
                 /\ result_rows' = << >>
                 /\ idx' = 0
                 /\ UNCHANGED <<completion, processed, emitted, exc>>
    /\ UNCHANGED <<resolver_calls, interrupted, inputVars, reference_rows, candidate_rows,
                   matchVars, resolveVars, simVars, mappingVars, appVars>>

\* (k / total) * 100
Percent(k) == DivFix(k, total) * 100

\* EmitProgress without the cadence: an event after every row
EmitProgressEveryRow(k) ==
    emitted' = Append(emitted, Progress(Percent(k), k, total))

\* the progress emit of both loops, after the k-th row
EmitProgress(k) ==
    IF k % 10 = 0 \/ k = total
    THEN emitted' = Append(emitted, Progress(Percent(k), k, total))
    ELSE emitted' = emitted

\* pool.imap_unordered: the n-th result handed out is that of the task
\* that completed n-th
imap_unordered(n) == completion[n]

\* line 104, pool.imap: the n-th result handed out is that of args_list[n],
\* whatever the order in which the tasks complete
imap(n) == n

\* a process of the pool completes the task of reference row k; the
\* num_workers processes of Pool(processes=num_workers) take the tasks in
\* args_list order, so at most num_workers tasks are under way
TaskCompletes(k) ==
    /\ pc = "par_loop"
    /\ k \notin Range(completion)
    /\ k <= Len(completion) + num_workers
    /\ completion' = Append(completion, k)
    /\ UNCHANGED <<resolver_calls, pc, interrupted, inputVars, reference_rows, candidate_rows, result_rows,
                   processed, idx, exc, path, emitted, matchVars, resolveVars, simVars, mappingVars, appVars>>

\* lines 107-118: one turn of `for result in results`, which waits for the
\* next result of the iterator; taking it re-raises what its row task raised
ParCollect ==
    /\ pc = "par_loop"
    /\ processed < total
    /\ Len(completion) > processed
    /\ imap(processed + 1) \in Range(completion)
    /\ \/ ParallelExcept("row task failed")
       \/ IF interrupted
          THEN Return /\ UNCHANGED <<result_rows, completion, processed, idx, path, emitted, exc>>
          ELSE /\ result_rows' = Append(result_rows,
                     process_single_match(reference_rows[imap(processed + 1)], ref_col,
                         selected_ref_cols, candidate_rows, cand_col,
                         selected_cand_cols, threshold, column_names, EmptyDict))
               /\ processed' = processed + 1
               /\ EmitProgress(processed + 1)
               /\ UNCHANGED <<pc, completion, idx, path, exc>>
    /\ UNCHANGED <<resolver_calls, interrupted, inputVars, reference_rows, candidate_rows,
                   matchVars, resolveVars, simVars, mappingVars, appVars>>

\* ParFinish without the check before the final emit
ParFinishNoCheck ==
    /\ pc = "par_loop"
    /\ processed = total
    /\ resolver_calls' = Append(resolver_calls, result_rows)
    /\ LET resolved == _resolve_candidate_conflicts(result_rows, selected_cand_cols,
                                                    column_names)
       IN  /\ result_rows' = resolved
           /\ emitted' = emitted \o <<Progress(100 * FIX, total, total),
                                      Finished(resolved)>>
    /\ pc' = "done"
    /\ UNCHANGED <<completion, interrupted, inputVars, reference_rows, candidate_rows,
                   processed, idx, exc, path, matchVars, resolveVars, simVars, mappingVars, appVars>>

\* lines 123-132: the resolver, the last check, the two final signals
ParFinish ==
    /\ pc = "par_loop"
    /\ processed = total
    /\ resolver_calls' = Append(resolver_calls, result_rows)
    /\ LET resolved == _resolve_candidate_conflicts(result_rows, selected_cand_cols,
                                                    column_names)
       IN  /\ result_rows' = resolved
           /\ IF ~interrupted
              THEN emitted' = emitted \o <<Progress(100 * FIX, total, total),
                                           Finished(resolved)>>
              ELSE emitted' = emitted
    /\ Return
    /\ UNCHANGED <<completion, interrupted, inputVars, reference_rows, candidate_rows,
                   processed, idx, exc, path, matchVars, resolveVars, simVars, mappingVars, appVars>>

\* lines 144-183: one turn of the sequential loop
SeqRow ==
    /\ pc = "seq_loop"
    /\ idx < total
    /\ IF interrupted
       THEN Return /\ UNCHANGED <<result_rows, idx, emitted, exc>>
       ELSE \/ Raise("row failed") /\ UNCHANGED <<result_rows, idx, emitted>>
            \/ /\ result_rows' = Append(result_rows,
                     SequentialRow(reference_rows[idx + 1], ref_col, selected_ref_cols,
                         candidate_rows, cand_col, selected_cand_cols,
                         threshold, column_names))
               /\ idx' = idx + 1
               /\ EmitProgress(idx + 1)
               /\ UNCHANGED <<pc, exc>>
    /\ UNCHANGED <<completion, resolver_calls, interrupted, inputVars, reference_rows, candidate_rows,
                   processed, path, matchVars, resolveVars, simVars, mappingVars, appVars>>

\* SeqFinish sending finished before the last progress event
SeqFinishProgressLast ==
    /\ pc = "seq_loop"
    /\ idx = total
    /\ IF ~interrupted
       THEN LET resolved == _resolve_candidate_conflicts(result_rows, selected_cand_cols,
                                                         column_names)
            IN  /\ result_rows' = resolved
                /\ resolver_calls' = Append(resolver_calls, result_rows)
                /\ emitted' = emitted \o <<Finished(resolved),
                                           Progress(100 * FIX, total, total)>>
       ELSE UNCHANGED <<result_rows, resolver_calls, emitted>>
    /\ Return
    /\ UNCHANGED <<completion, interrupted, inputVars, reference_rows, candidate_rows,
                   processed, idx, exc, path, matchVars, resolveVars, simVars, mappingVars, appVars>>

\* SeqFinish sending the rows as the loop left them
SeqFinishUnresolved ==
    /\ pc = "seq_loop"
    /\ idx = total
    /\ IF ~interrupted
       THEN emitted' = emitted \o <<Progress(100 * FIX, total, total),
                                    Finished(result_rows)>>
       ELSE UNCHANGED emitted
    /\ Return
    /\ UNCHANGED <<completion, resolver_calls, interrupted, inputVars, reference_rows,
                   candidate_rows, result_rows, processed, idx, exc, path, matchVars,
                   resolveVars, simVars, mappingVars, appVars>>

\* lines 186-194: after the loop
SeqFinish ==
    /\ pc = "seq_loop"
    /\ idx = total
    /\ IF ~interrupted
       THEN LET resolved == _resolve_candidate_conflicts(result_rows, selected_cand_cols,
                                                         column_names)
            IN  /\ result_rows' = resolved
                /\ resolver_calls' = Append(resolver_calls, result_rows)
                /\ emitted' = emitted \o <<Progress(100 * FIX, total, total),
                                           Finished(resolved)>>
       ELSE UNCHANGED <<result_rows, resolver_calls, emitted>>
    /\ Return
    /\ UNCHANGED <<completion, interrupted, inputVars, reference_rows, candidate_rows,
                   processed, idx, exc, path, matchVars, resolveVars, simVars, mappingVars, appVars>>

\* HandleException swallowing the exception
HandleExceptionSilent ==
    /\ pc = "except"
    /\ pc' = "done"
    /\ UNCHANGED <<completion, resolver_calls, interrupted, inputVars, reference_rows, candidate_rows, result_rows,
                   processed, idx, exc, path, emitted, matchVars, resolveVars, simVars, mappingVars, appVars>>

\* HandleException reporting the exception although interruption was requested
HandleExceptionAlways ==
    /\ pc = "except"
    /\ emitted' = Append(emitted, Error(exc))
    /\ pc' = "done"
    /\ UNCHANGED <<completion, resolver_calls, interrupted, inputVars, reference_rows, candidate_rows, result_rows,
                   processed, idx, exc, path, matchVars, resolveVars, simVars, mappingVars, appVars>>

\* lines 196-198: the outer handler
HandleException ==
    /\ pc = "except"
    /\ IF ~interrupted
       THEN emitted' = Append(emitted, Error(exc))
       ELSE emitted' = emitted
    /\ Return
    /\ UNCHANGED <<completion, resolver_calls, interrupted, inputVars, reference_rows, candidate_rows, result_rows,
                   processed, idx, exc, path, matchVars, resolveVars, simVars, mappingVars, appVars>>

\* app_window.py, closeEvent: requestInterruption() on a running worker
RequestInterruption ==
    /\ pc # "done"
    /\ ~interrupted
    /\ interrupted' = TRUE
    /\ UNCHANGED <<completion, resolver_calls, pc, inputVars, reference_rows, candidate_rows, result_rows,
                   processed, idx, exc, path, emitted, matchVars, resolveVars, simVars, mappingVars, appVars>>

Next ==
    \/ ReadReference
    \/ ReadCandidates
    \/ Dispatch
    \/ \E k \in DOMAIN reference_rows : TaskCompletes(k)
    \/ ParCollect
    \/ ParFinish
    \/ SeqRow
    \/ SeqFinish
    \/ HandleException
    \/ RequestInterruption

Spec == Init /\ [][Next]_vars

----------------------------------------------------------------------------
(* Runs of the worker over many equal rows, for the cadence of progress *)

CadenceFiles ==
    {Unreadable} \cup
    { [ok |-> TRUE, rows |-> [ i \in 1..n |-> [name |-> <<"a">>, id |-> <<"o">>] ]] :
        n \in {0, 1, MaxCadenceRows - 1, MaxCadenceRows} }

InitCadence ==
    /\ pc = "start"
    /\ interrupted = FALSE
    /\ ref_file \in CadenceFiles
    /\ cand_file = [ok |-> TRUE, rows |-> << [name |-> <<"a", " ", "o">>, id |-> <<"A">>] >>]
    /\ cpus \in {1, 2}
    /\ selected_ref_cols = << >>
    /\ selected_cand_cols = << >>
    /\ threshold = Float((7 * FIX) \div 10)
    /\ column_names = EmptyDict
    /\ reference_rows = << >>
    /\ candidate_rows = << >>
    /\ result_rows = << >>
    /\ completion = << >>
    /\ resolver_calls = << >>
    /\ processed = 0
    /\ idx = 0
    /\ exc = ""
    /\ path = "none"
    /\ emitted = << >>
    /\ MatchIdle
    /\ ResolveIdle
    /\ SimIdle
    /\ MappingIdle
    /\ AppIdle

SpecCadence == InitCadence /\ [][Next]_vars

\* ---------------------------------------------------------------------------
\* A run over enough rows for the pool to report progress twice before it
\* fails.  Of the orders in which the pool can complete its tasks only the
\* submission order is taken.

MaxRestartRows == 21

InitRestart ==
    /\ pc = "start"
    /\ interrupted = FALSE
    /\ ref_file = [ok |-> TRUE,
                   rows |-> [ i \in 1..MaxRestartRows |-> [name |-> <<"a">>, id |-> <<"o">>] ]]
    /\ cand_file = [ok |-> TRUE, rows |-> << [name |-> <<"a", " ", "o">>, id |-> <<"A">>] >>]
    /\ cpus \in {1, 2}
    /\ selected_ref_cols = << >>
    /\ selected_cand_cols = << >>
    /\ threshold = Float((7 * FIX) \div 10)
    /\ column_names = EmptyDict
    /\ reference_rows = << >>
    /\ candidate_rows = << >>
    /\ result_rows = << >>
    /\ completion = << >>
    /\ resolver_calls = << >>
    /\ processed = 0
    /\ idx = 0
    /\ exc = ""
    /\ path = "none"
    /\ emitted = << >>
    /\ MatchIdle
    /\ ResolveIdle
    /\ SimIdle
    /\ MappingIdle
    /\ AppIdle

NextInOrder ==
    \/ ReadReference
    \/ ReadCandidates
    \/ Dispatch
    \/ \E k \in DOMAIN reference_rows : k = Len(completion) + 1 /\ TaskCompletes(k)
    \/ ParCollect
    \/ ParFinish
    \/ SeqRow
    \/ SeqFinish
    \/ HandleException
    \/ RequestInterruption

SpecRestart == InitRestart /\ [][NextInOrder]_vars

\* ---------------------------------------------------------------------------
\* Runs over a candidate file in which two names differ only in the blanks
\* around them

StripRefValues ==
    { [name |-> <<"a", " ", "o">>, id |-> <<"a">>],
      [name |-> <<"a">>,           id |-> <<"o">>],
      [name |-> <<"o">>,           id |-> <<"a">>] }
StripCandValues ==
    { [name |-> <<"a", " ", "o">>,      id |-> <<"o">>],
      [name |-> <<"a", " ", "o", " ">>, id |-> <<"A">>],
      [name |-> <<"o">>,                id |-> <<"a">>] }

MaxStripCandRows == 3

InitStrip ==
    /\ pc = "start"
    /\ interrupted = FALSE
    /\ ref_file \in { [ok |-> TRUE, rows |-> r] : r \in SeqsUpTo(StripRefValues, MaxRows) }
    /\ cand_file \in { [ok |-> TRUE, rows |-> r] : r \in SeqsUpTo(StripCandValues, MaxStripCandRows) }
    /\ cpus \in {1, 4}
    /\ selected_ref_cols = << >>
    /\ selected_cand_cols = <<"id">>
    /\ threshold = Float((7 * FIX) \div 10)
    /\ column_names = EmptyDict
    /\ reference_rows = << >>
    /\ candidate_rows = << >>
    /\ result_rows = << >>
    /\ completion = << >>
    /\ resolver_calls = << >>
    /\ processed = 0
    /\ idx = 0
    /\ exc = ""
    /\ path = "none"
    /\ emitted = << >>
    /\ MatchIdle
    /\ ResolveIdle
    /\ SimIdle
    /\ MappingIdle
    /\ AppIdle

SpecStrip == InitStrip /\ [][Next]_vars



----------------------------------------------------------------------------
(* Calls of best_match and process_single_match on one reference string *)

MatchTexts ==
    { << >>, <<".">>, <<"a">>, <<"A">>, <<"a", " ", "o">>, <<"o", " ", "a">> }
Thresholds == { NoneScore, Float((7 * FIX) \div 10), Float((95 * FIX) \div 100) }
\* the number a threshold argument stands for
Thr(t) == IF t = NoneScore THEN SIM_THRESHOLD ELSE t.val

WorkerIdle ==
    /\ pc = "done"
    /\ interrupted = FALSE
    /\ ref_file = Unreadable
    /\ cand_file = Unreadable
    /\ cpus = 1
    /\ selected_ref_cols = << >>
    /\ threshold = NoneScore
    /\ reference_rows = << >>
    /\ candidate_rows = << >>
    /\ result_rows = << >>
    /\ completion = << >>
    /\ resolver_calls = << >>
    /\ processed = 0
    /\ idx = 0
    /\ exc = ""
    /\ path = "none"
    /\ emitted = << >>

InitMatch ==
    /\ m_ref \in MatchTexts \cup {None}
    /\ m_cands \in SeqsUpTo(MatchTexts, MaxPool)
    /\ m_out = EmptyDict
    /\ selected_cand_cols = << >>
    /\ column_names = EmptyDict
    /\ WorkerIdle
    /\ ResolveIdle
    /\ SimIdle
    /\ MappingIdle
    /\ AppIdle

\* one call of best_match, and of process_single_match on the row that
\* holds m_ref, with the threshold t
CallBestMatch(t) ==
    /\ t \notin DOMAIN m_out
    /\ m_out' = Put(m_out, t,
          [bm |-> best_match(m_ref, m_cands, t),
           row |-> process_single_match([name |-> m_ref], ref_col, selected_ref_cols,
                       [ i \in DOMAIN m_cands |-> [name |-> m_cands[i]] ], cand_col,
                       selected_cand_cols, t, column_names, EmptyDict)])
    /\ UNCHANGED <<m_ref, m_cands, workerVars, configVars, resolveVars, simVars, mappingVars, appVars>>

NextMatch == \E t \in Thresholds : CallBestMatch(t)

SpecMatch == InitMatch /\ [][NextMatch]_vars

\* ---------------------------------------------------------------------------
\* best_match up to the shortlist, on pools longer than MAX_HEAVY_CANDIDATES

MaxShortlistPool == 66
PoolPeriod == 3
ShortlistRefs == { <<".">>, <<"a", " ", "o">>, <<"a", "o", "a">> }
ShortlistTexts == { <<".">>, <<"a">>, <<"a", "o">>, <<"a", " ", "o">>, <<"a", "o", "a">> }

InitShortlist ==
    /\ m_ref \in ShortlistRefs
    /\ m_cands = << >>
    /\ m_out = EmptyDict
    /\ selected_cand_cols = << >>
    /\ column_names = EmptyDict
    /\ WorkerIdle
    /\ ResolveIdle
    /\ SimIdle
    /\ MappingIdle
    /\ AppIdle

\* the caller's iterable yields one more candidate (the pools are the
\* lists that repeat their first PoolPeriod elements)
AppendCandidate(text) ==
    /\ DOMAIN m_out = {}
    /\ Len(m_cands) < MaxShortlistPool
    /\ Len(m_cands) >= PoolPeriod => text = m_cands[Len(m_cands) + 1 - PoolPeriod]
    /\ m_cands' = Append(m_cands, text)
    /\ UNCHANGED <<m_ref, m_out, workerVars, configVars, resolveVars, simVars, mappingVars, appVars>>

\* matcher.py, best_match lines 361-424: the early returns, then the
\* tokenized pool goes through the cheap pre-filter
Prefilter ==
    /\ DOMAIN m_out = {}
    /\ m_out' = IF m_cands = << >> \/ tokenize(m_ref) = << >>
                THEN [returned |-> NoMatch]
                ELSE [limited_candidates |->
                        LimitedCandidates(tokenize(m_ref),
                            [ i \in DOMAIN m_cands |->
                                [text |-> m_cands[i], tokens |-> tokenize(m_cands[i])] ])]
    /\ UNCHANGED <<m_ref, m_cands, workerVars, configVars, resolveVars, simVars, mappingVars, appVars>>

NextShortlist ==
    \/ \E text \in ShortlistTexts : AppendCandidate(text)
    \/ Prefilter

SpecShortlist == InitShortlist /\ [][NextShortlist]_vars

\* ---------------------------------------------------------------------------
\* best_match on pools whose candidates tie on the combined score

MaxSelectPool == 3
SelectRefs == { <<"a", "o", "a">>, <<"a", "o", "a", "o">> }
SelectTexts ==
    { <<"o">>, <<"a", "o", "a">>, <<"a", "o", "a", "o">>, <<"A", "o", "a", "o">>,
      <<"a", "o", "a", "o", "a">> }

InitSelect ==
    /\ m_ref \in SelectRefs
    /\ m_cands \in SeqsUpTo(SelectTexts, MaxSelectPool)
    /\ m_out = EmptyDict
    /\ selected_cand_cols = << >>
    /\ column_names = EmptyDict
    /\ WorkerIdle
    /\ ResolveIdle
    /\ SimIdle
    /\ MappingIdle
    /\ AppIdle

SpecSelect == InitSelect /\ [][NextMatch]_vars

\* ---------------------------------------------------------------------------
\* _token_similarity called through functools.lru_cache

CACHE_MAXSIZE == 10000
MaxSimCalls == 2    \* distinct argument pairs called in one behaviour
SimTokens ==
    { << >>, <<"a">>, <<"o">>, <<"a", "o">>, <<"a", "a", "o", "a">>, <<"o", "a", "a", "a">>,
      <<"a", "o", "a", "o">>, <<"o", "a", "a", "o">>, <<"a", "o", "a">>, <<"a", "o", "o", "a">> }

InitSim ==
    /\ sim_cache = << >>
    /\ sim_ret = << >>
    /\ MappingIdle
    /\ AppIdle
    /\ selected_cand_cols = << >>
    /\ column_names = EmptyDict
    /\ WorkerIdle
    /\ MatchIdle
    /\ ResolveIdle

\* seq without its i-th element
Without(seq, i) == SubSeq(seq, 1, i - 1) \o SubSeq(seq, i + 1, Len(seq))

\* a call whose arguments are cached: the stored value is returned and the
\* entry becomes the most recently used
CachedCall(a, b) ==
    /\ \E i \in DOMAIN sim_cache :
          /\ sim_cache[i].a = a
          /\ sim_cache[i].b = b
          /\ sim_ret' = <<[a |-> a, b |-> b, value |-> sim_cache[i].value, hit |-> TRUE]>>
          /\ sim_cache' = Append(Without(sim_cache, i), sim_cache[i])
    /\ UNCHANGED <<workerVars, configVars, matchVars, resolveVars, mappingVars, appVars>>

\* a call whose arguments are not cached: the body runs, and its value is
\* stored, in place of the least recently used entry when the cache is full
ComputedCall(a, b) ==
    /\ \A i \in DOMAIN sim_cache : sim_cache[i].a # a \/ sim_cache[i].b # b
    /\ Len(sim_cache) < MaxSimCalls
    /\ LET Store(value) ==
               /\ sim_ret' = <<[a |-> a, b |-> b, value |-> value, hit |-> FALSE]>>
               /\ sim_cache' = Append(IF Len(sim_cache) >= CACHE_MAXSIZE
                                      THEN Tail(sim_cache) ELSE sim_cache,
                                      [a |-> a, b |-> b, value |-> value])
       IN  Store(_token_similarity(a, b))
    /\ UNCHANGED <<workerVars, configVars, matchVars, resolveVars, mappingVars, appVars>>

NextSim ==
    \E a, b \in SimTokens : CachedCall(a, b) \/ ComputedCall(a, b)

SpecSim == InitSim /\ [][NextSim]_vars

\* ---------------------------------------------------------------------------
\* build_output_column_mapping on the headers of two small files

MaxColumns == 2     \* headers of one file
MappingHeaders ==
    { << >>, <<"A">>, <<"a">>, <<" ", "A">>, <<BOM, "A">>, <<"A", "_", "r", "e", "f">> }
ReservedSets == { {}, { <<"A">> }, { <<"A", "_", "r", "e", "f">> } }

InitMapping ==
    /\ \E ref_columns_order, cand_columns_order \in SeqsUpTo(MappingHeaders, MaxColumns) :
          \E selected_ref_columns \in SUBSET Range(ref_columns_order) :
            \E selected_cand_columns \in SUBSET Range(cand_columns_order) :
              \E reserved_names \in ReservedSets :
                 map_in = [ref_columns_order |-> ref_columns_order,
                           cand_columns_order |-> cand_columns_order,
                           selected_ref_cols |-> selected_ref_columns,
                           selected_cand_cols |-> selected_cand_columns,
                           reserved_names |-> reserved_names]
    /\ map_ret = << >>
    /\ selected_cand_cols = << >>
    /\ column_names = EmptyDict
    /\ WorkerIdle
    /\ MatchIdle
    /\ ResolveIdle
    /\ SimIdle
    /\ AppIdle

CallBuildMapping ==
    /\ map_ret = << >>
    /\ map_ret' = <<build_output_column_mapping(map_in.ref_columns_order,
                        map_in.cand_columns_order, map_in.selected_ref_cols,
                        map_in.selected_cand_cols, map_in.reserved_names)>>
    /\ UNCHANGED <<map_in, workerVars, configVars, matchVars, resolveVars, simVars, appVars>>

SpecMapping == InitMapping /\ [][CallBuildMapping]_vars

----------------------------------------------------------------------------
(* app_window.py: the window, its buttons and the worker threads *)

\* the lists a finished signal can carry: no row (an empty reference file) or
\* some rows
ResultLists == { << >>, <<"row">> }

\* QThread.isRunning(): the thread was started and run() has not returned
isRunning(w) == threads[w] \in {"running", "emitted"}

\* the thread is at work: started, and its terminal signal not yet emitted
Working(w) == threads[w] = "running"

\* `if not self._last_results`: None and the empty list are both false
Falsy(results) == results = None \/ results = << >>

\* self.matching_worker.deleteLater(); self.matching_worker = None
DropWorker ==
    /\ pending_delete' = IF matching_worker # 0
                         THEN pending_delete \cup {matching_worker}
                         ELSE pending_delete
    /\ matching_worker' = 0

\* lines 903-911
_reset_ui ==
    /\ run_button' = TRUE
    /\ save_button' = FALSE
    /\ _last_results' = None

\* lines 765-814, a click on the Run button; ready says whether both files
\* and both columns are chosen
run(ready) ==
    /\ alive
    /\ run_button
    /\ IF matching_worker # 0 /\ isRunning(matching_worker)
       THEN UNCHANGED <<matching_worker, run_button, threads, pending_delete>>
       ELSE IF ~ready \/ \A w \in Threads : threads[w] # "new"
            THEN DropWorker /\ UNCHANGED <<run_button, threads>>
            ELSE LET w == CHOOSE v \in Threads :
                              threads[v] = "new" /\ \A u \in Threads : threads[u] = "new" => v <= u
                 IN  /\ pending_delete' = IF matching_worker # 0
                                          THEN pending_delete \cup {matching_worker}
                                          ELSE pending_delete
                     /\ run_button' = FALSE
                     /\ matching_worker' = w
                     /\ threads' = [threads EXCEPT ![w] = "running"]
    /\ UNCHANGED <<save_button, _last_results, signals, alive>>
    /\ UNCHANGED <<workerVars, configVars, matchVars, resolveVars, simVars, mappingVars>>

\* csv_processor.py lines 131, 194 and 198: a thread that was not asked to
\* stop emits finished or error, once; the signal is queued for the window's
\* thread
EmitTerminal(w) ==
    /\ alive
    /\ threads[w] = "running"
    /\ \E signal \in { Finished(r) : r \in ResultLists } \cup { Error("") } :
          signals' = Append(signals, signal)
    /\ threads' = [threads EXCEPT ![w] = "emitted"]
    /\ UNCHANGED <<matching_worker, run_button, save_button, _last_results,
                   pending_delete, alive>>
    /\ UNCHANGED <<workerVars, configVars, matchVars, resolveVars, simVars, mappingVars>>

\* csv_processor.py lines 132 and 196: run() returns after its emit
ReturnFromRun(w) ==
    /\ alive
    /\ threads[w] = "emitted"
    /\ threads' = [threads EXCEPT ![w] = "returned"]
    /\ UNCHANGED <<matching_worker, run_button, save_button, _last_results, signals,
                   pending_delete, alive>>
    /\ UNCHANGED <<workerVars, configVars, matchVars, resolveVars, simVars, mappingVars>>

\* lines 824-836, the slot of finished
_on_results_ready ==
    /\ alive
    /\ signals # << >>
    /\ Head(signals).sig = "finished"
    /\ _last_results' = Head(signals).result_rows
    /\ save_button' = TRUE
    /\ run_button' = TRUE
    /\ DropWorker
    /\ signals' = Tail(signals)
    /\ UNCHANGED <<threads, alive>>
    /\ UNCHANGED <<workerVars, configVars, matchVars, resolveVars, simVars, mappingVars>>

\* lines 838-845, the slot of error
_on_matching_error ==
    /\ alive
    /\ signals # << >>
    /\ Head(signals).sig = "error"
    /\ DropWorker
    /\ _reset_ui
    /\ signals' = Tail(signals)
    /\ UNCHANGED <<threads, alive>>
    /\ UNCHANGED <<workerVars, configVars, matchVars, resolveVars, simVars, mappingVars>>

\* lines 847-901, a click on the Save button; the user cancels the dialog, or
\* the file is written, or writing it raises
save_results(outcome) ==
    /\ alive
    /\ save_button
    /\ IF Falsy(_last_results) \/ outcome = "cancelled"
       THEN UNCHANGED <<run_button, save_button, _last_results>>
       ELSE _reset_ui
    /\ UNCHANGED <<matching_worker, threads, signals, pending_delete, alive>>
    /\ UNCHANGED <<workerVars, configVars, matchVars, resolveVars, simVars, mappingVars>>

\* the event loop deletes a thread object after deleteLater(); Qt aborts the
\* process when the thread of the object is still running
DeferredDelete(w) ==
    /\ alive
    /\ w \in pending_delete
    /\ pending_delete' = pending_delete \ {w}
    /\ alive' = ~isRunning(w)
    /\ UNCHANGED <<matching_worker, run_button, save_button, _last_results, threads, signals>>
    /\ UNCHANGED <<workerVars, configVars, matchVars, resolveVars, simVars, mappingVars>>

InitApp ==
    /\ AppIdle
    /\ WorkerIdle
    /\ MatchIdle
    /\ ResolveIdle
    /\ SimIdle
    /\ MappingIdle
    /\ selected_cand_cols = << >>
    /\ column_names = EmptyDict

NextApp ==
    \/ \E ready \in BOOLEAN : run(ready)
    \/ \E outcome \in {"cancelled", "saved", "failed"} : save_results(outcome)
    \/ _on_results_ready
    \/ _on_matching_error
    \/ \E w \in Threads : EmitTerminal(w)
    \/ \E w \in Threads : ReturnFromRun(w)
    \/ \E w \in Threads : DeferredDelete(w)

SpecApp == InitApp /\ [][NextApp]_vars

----------------------------------------------------------------------------
(* Calls of _resolve_candidate_conflicts on raw result rows *)

\* what a row task found: nothing, or a candidate with its score and id
RawOutcomes ==
    { [match |-> << >>, score |-> EmptyStr, id |-> << >>] }
    \cup { [match |-> m.text, score |-> Float(sc), id |-> m.id] :
             m \in { [text |-> <<"a", " ">>, id |-> <<"o">>],
                     [text |-> <<"o">>, id |-> <<"A">>] },
             sc \in { (6 * FIX) \div 10, (9 * FIX) \div 10 } }

\* the raw result row of that outcome, as process_single_match builds it
RawRow(o, cand_cols, names) ==
    LET basic == Put(Put(Put(EmptyDict,
                     ref_col_name(names), <<"a">>),
                     match_col_name(names), o.match),
                     similarity_col_name(names), o.score)
    IN  IF o.match # << >> /\ cand_cols # << >> THEN Put(basic, "id", o.id) ELSE basic

InitResolve ==
    /\ selected_cand_cols \in ColumnSelections
    /\ column_names \in ColumnNames
    /\ rr_raw \in SeqsUpTo({ RawRow(o, selected_cand_cols, column_names) : o \in RawOutcomes },
                           MaxRawRows)
    /\ rr_rows = rr_raw
    /\ rr_prev = << >>
    /\ rr_pass = 0
    /\ WorkerIdle
    /\ MatchIdle
    /\ SimIdle
    /\ MappingIdle
    /\ AppIdle

\* result_rows = self._resolve_candidate_conflicts(result_rows, ...)
Resolve ==
    /\ rr_pass < 2
    /\ rr_prev' = rr_rows
    /\ rr_rows' = _resolve_candidate_conflicts(rr_rows, selected_cand_cols, column_names)
    /\ rr_pass' = rr_pass + 1
    /\ UNCHANGED <<rr_raw, workerVars, configVars, matchVars, simVars, mappingVars, appVars>>

NextResolve == Resolve

SpecResolve == InitResolve /\ [][NextResolve]_vars

----------------------------------------------------------------------------
(* Properties *)

FinishedEvents == { i \in DOMAIN emitted : emitted[i].sig = "finished" }
ErrorEvents == { i \in DOMAIN emitted : emitted[i].sig = "error" }
MatchOf(row) == row[match_col_name(column_names)]
SimilarityOf(row) == row[similarity_col_name(column_names)]

\* C1: after _resolve_candidate_conflicts has run on a list of raw result
\* rows, no two rows hold the same non-empty text in the best-match column.
C1_UniqueCandidateAfterResolution ==
    rr_pass >= 1 =>
        \A i, j \in DOMAIN rr_rows :
            (i # j /\ MatchOf(rr_rows[i]) # << >>)
                => MatchOf(rr_rows[i]) # MatchOf(rr_rows[j])

\* a pass of the resolver that had to clear two rows of a three-way conflict
C1_Witness ==
    /\ rr_pass = 1
    /\ \E i, j, k \in DOMAIN rr_raw :
          /\ i < j /\ j < k
          /\ MatchOf(rr_raw[i]) # << >>
          /\ MatchOf(rr_raw[i]) = MatchOf(rr_raw[j])
          /\ MatchOf(rr_raw[j]) = MatchOf(rr_raw[k])
          /\ Cardinality({ n \in {i, j, k} : MatchOf(rr_rows[n]) # << >> }) = 1

\* C2: the list emitted with finished has exactly one record per reference
\* row, in reference-row order, record i carrying the match-field value of
\* reference row i in the reference column, on every path through run().
C2_OneRecordPerReferenceRow ==
    \A e \in FinishedEvents :
        /\ Len(emitted[e].result_rows) = Len(reference_rows)
        /\ \A i \in DOMAIN reference_rows :
              emitted[e].result_rows[i][ref_col_name(column_names)]
                  = OrEmpty(Get(reference_rows[i], ref_col, << >>))

\* C3: the sequential fallback starts from an empty result list: while it
\* runs, result_rows holds the rows it has reprocessed itself and no others.
C3_FallbackStartsFromEmpty ==
    (path = "fallback" /\ pc = "seq_loop") => Len(result_rows) = idx

\* C4: a second pass of the resolver over its own output changes nothing.
C4_ResolverIdempotent ==
    rr_pass = 2 => rr_rows = rr_prev

\* two passes, the first of which cleared a row
C4_Witness ==
    /\ rr_pass = 2
    /\ rr_prev # rr_raw
    /\ \E i \in DOMAIN rr_rows : MatchOf(rr_rows[i]) # << >>

\* C5: a match found at a threshold is found, with the same candidate and
\* the same score, at every lower threshold.
C5_ThresholdOnlyFilters ==
    \A t1, t2 \in DOMAIN m_out :
        (Thr(t1) < Thr(t2) /\ m_out[t2].bm # NoMatch)
            => m_out[t1].bm = m_out[t2].bm

\* a pool whose first candidate scores between two thresholds and whose
\* second candidate scores above both, called at both
C5_Witness ==
    /\ m_ref = <<"a">>
    /\ m_cands = << <<"o", " ", "a">>, <<"a", " ", "o">> >>
    /\ NoneScore \in DOMAIN m_out
    /\ Float((7 * FIX) \div 10) \in DOMAIN m_out
    /\ m_out[Float((7 * FIX) \div 10)].bm.match = <<"a", " ", "o">>

\* C6: in every result row, before and after conflict resolution, the
\* similarity column holds a score, which then lies in [0,1], exactly when
\* the best-match column holds a non-empty text.
RowOutcomeOK(row) ==
    /\ (MatchOf(row) # << >>) <=> (SimilarityOf(row) # EmptyStr)
    /\ SimilarityOf(row) # EmptyStr =>
          /\ SimilarityOf(row).tag = "float"
          /\ SimilarityOf(row).val >= 0
          /\ SimilarityOf(row).val <= FIX
BestScore ==
    LET ref_tokens == tokenize(m_ref)
        limited == LimitedCandidates(ref_tokens,
                       [ i \in DOMAIN m_cands |->
                           [text |-> m_cands[i], tokens |-> tokenize(m_cands[i])] ])
        stats == _compute_document_frequencies(
                     [ i \in DOMAIN limited |-> limited[i].tokens ])
    IN  SelectBest(ref_tokens, limited, stats.df, stats.doc_count,
                   [score |-> 0, candidate |-> None]).score
C7_NoMatchIsAValue ==
    \A t \in DOMAIN m_out :
        (tokenize(m_ref) = << >> \/ m_cands = << >> \/ BestScore < Thr(t))
            => /\ m_out[t].bm = NoMatch
               /\ m_out[t].row["best_match"] = << >>
               /\ m_out[t].row["similarity"] = EmptyStr

\* the three cases: a None reference field against a pool, an empty pool,
\* and a best score under the threshold
C7_Witness ==
    /\ DOMAIN m_out = Thresholds
    /\ \/ m_ref = None /\ Len(m_cands) = 2
       \/ m_ref = <<"a">> /\ m_cands = << >>
       \/ m_ref = <<"a">> /\ m_cands = << <<"o", " ", "a">> >>

\* C8: when reading the reference or the candidate file raises and no
\* cancellation was requested, the worker emits error with the failure
\* message; it never emits finished for that run.
C8_ReadFailureSurfaced ==
    (~ref_file.ok \/ ~cand_file.ok) =>
        /\ FinishedEvents = {}
        /\ (pc = "done" /\ ~interrupted) =>
              emitted = << Error(IF ~ref_file.ok THEN "reference file unreadable"
                                 ELSE "candidate file unreadable") >>

C8_Witness ==
    /\ pc = "done"
    /\ ~interrupted
    /\ ref_file.ok /\ Len(reference_rows) = 2
    /\ ~cand_file.ok
    /\ emitted = << Error("candidate file unreadable") >>

\* C9: an exception of the parallel branch is never what the error signal
\* carries; after a fallback the error signal carries only an exception of
\* the sequential pass.
C9_ParallelFailureNotSurfaced ==
    \A e \in ErrorEvents :
        /\ emitted[e].msg \notin {"pool creation failed", "row task failed"}
        /\ path = "fallback" => (emitted[e].msg = "row failed" /\ exc = "row failed")

\* a run whose parallel branch raised after one result and whose
\* sequential pass went on to finished
C9_Witness ==
    /\ path = "fallback"
    /\ processed = 1
    /\ pc = "done"
    /\ FinishedEvents # {}

\* C10: a step of the worker taken while interruption is requested emits
\* nothing and returns; the one step that is no check, the re-raise of a
\* pool exception, emits nothing and leads to the check of the sequential
\* loop.
WorkerStepped ==
    <<pc, reference_rows, candidate_rows, result_rows, processed, idx, exc, path, emitted>>'
        # <<pc, reference_rows, candidate_rows, result_rows, processed, idx, exc, path, emitted>>


C10_CancellationEmitsNothing ==
    [][ (interrupted /\ WorkerStepped) =>
            /\ emitted' = emitted
            /\ \/ pc' = "done"
               \/ pc = "par_loop" /\ pc' = "seq_loop" /\ path' = "fallback" ]_vars

\* a run cancelled between two rows, after which nothing was emitted
C10_Witness ==
    /\ pc = "done"
    /\ interrupted
    /\ Len(result_rows) = 1
    /\ total = 3
    /\ emitted = << >>

\* C11 as stated: a run that was cancelled has emitted the error signal.
C11_CancellationReportedAsError ==
    (pc = "done" /\ interrupted) => ErrorEvents # {}

\* C11, amended: cancellation is not reported on the error channel: a step
\* of the worker taken while interruption is requested adds no error and no
\* finished signal, also when an exception is on its way to the outer
\* handler; no result set is returned.
C11_CancellationIsSilent ==
    [][ interrupted =>
            /\ { i \in DOMAIN emitted' : emitted'[i].sig = "error" } = ErrorEvents
            /\ { i \in DOMAIN emitted' : emitted'[i].sig = "finished" } = FinishedEvents ]_vars

\* a run cancelled while an exception was on its way to the outer handler,
\* which then emitted nothing
C11_Witness ==
    /\ pc = "done"
    /\ interrupted
    /\ exc = "row failed"
    /\ Len(result_rows) = 1
    /\ ErrorEvents = {}

\* the result rows of all reference rows, in reference-row order, resolved:
\* a function of the input rows and the configuration alone
RowsInReferenceOrder ==
    _resolve_candidate_conflicts(
        [ i \in DOMAIN reference_rows |->
            process_single_match(reference_rows[i], ref_col, selected_ref_cols,
                candidate_rows, cand_col, selected_cand_cols, threshold,
                column_names, EmptyDict) ],
        selected_cand_cols, column_names)

\* C12: the result rows delivered with finished by the parallel path are
\* the same for every order in which the pool's row tasks complete: they
\* are the rows of the reference rows in reference-row order, whatever the
\* completion order was.
C12_SchedulingIndependent ==
    \A e \in FinishedEvents :
        path = "parallel" => emitted[e].result_rows = RowsInReferenceOrder

\* a parallel run whose last row task completed first, on rows that differ
C12_Witness ==
    /\ pc = "done"
    /\ path = "parallel"
    /\ FinishedEvents # {}
    /\ completion = <<3, 1, 2>>
    /\ reference_rows[1] # reference_rows[3]
    /\ cand_file.rows # << >>

\* the raw rows as the row tasks of the pool compute them
ParallelRows ==
    [ i \in DOMAIN reference_rows |->
        process_single_match(reference_rows[i], ref_col, selected_ref_cols,
            candidate_rows, cand_col, selected_cand_cols, threshold,
            column_names, EmptyDict) ]
\* the raw rows as the body of the sequential loop computes them
SequentialRows ==
    [ i \in DOMAIN reference_rows |->
        SequentialRow(reference_rows[i], ref_col, selected_ref_cols,
            candidate_rows, cand_col, selected_cand_cols, threshold, column_names) ]
\* a sequential pass that started from an empty result list
FullySequential == path = "sequential" \/ (path = "fallback" /\ processed = 0)

\* C13: a fully sequential pass and a successful parallel pass produce the
\* same list of result rows for the same input, before conflict resolution
\* (the list at the end of the loop) and after it (the list sent with
\* finished).
C13_ParallelEqualsSequential ==
    /\ (pc = "seq_loop" /\ idx = total /\ FullySequential) =>
          result_rows = ParallelRows
    /\ (pc = "par_loop" /\ processed = total) =>
          result_rows = SequentialRows
    /\ \A e \in FinishedEvents :
          /\ FullySequential =>
                emitted[e].result_rows =
                    _resolve_candidate_conflicts(ParallelRows, selected_cand_cols, column_names)
          /\ path = "parallel" =>
                emitted[e].result_rows =
                    _resolve_candidate_conflicts(SequentialRows, selected_cand_cols, column_names)

\* a sequential pass over three rows, after the pool could not be created,
\* whose resolved list has a matched, an unmatched and a cleared row
C13_Witness ==
    /\ pc = "done"
    /\ path = "fallback"
    /\ processed = 0
    /\ total = 3
    /\ selected_cand_cols = <<"id">>
    /\ \E e \in FinishedEvents :
          LET rows == emitted[e].result_rows
          IN  /\ rows # SequentialRows
              /\ \E i \in DOMAIN rows : MatchOf(rows[i]) # << >>
              /\ \E i \in DOMAIN rows : SimilarityOf(SequentialRows[i]) = EmptyStr

\* C14: when the same column name is selected on both sides, the record of
\* a matched reference row carries the reference row's value and the
\* matched candidate row's value for that column under two distinct keys.
C14_SharedColumnKeptTwice ==
    (pc \in {"par_loop", "seq_loop"} /\ path # "fallback") =>
        \A i \in DOMAIN result_rows :
            LET row == result_rows[i]
                cells == DOMAIN row \ {similarity_col_name(column_names)}
                matched_row == MatchedRow(candidate_rows, cand_col, MatchOf(row))
            IN  \A col \in Range(selected_ref_cols) \cap Range(selected_cand_cols) :
                    (MatchOf(row) # << >> /\ col \in DOMAIN reference_rows[i]
                        /\ col \in DOMAIN matched_row)
                    => \E k1, k2 \in cells :
                          /\ k1 # k2
                          /\ row[k1] = reference_rows[i][col]
                          /\ row[k2] = matched_row[col]

\* the number of rows completed by the step, when the step completes a row
RowCompleted == processed' = processed + 1 \/ idx' = idx + 1
CompletedCount == IF processed' = processed + 1 THEN processed' ELSE idx'

\* C15: a step that completes the k-th row, 1 <= k <= total, emits the
\* progress event (100*k/total, k, total) exactly when k is a multiple of
\* 10 or k = total, and nothing otherwise; and every finished signal is
\* immediately preceded by the progress event (100, total, total).  The
\* percentage is compared up to the resolution of the fixed-point quotient.
C15_ProgressCadence ==
    [][ /\ RowCompleted =>
            LET k == CompletedCount
            IN  /\ 1 <= k /\ k <= total
                /\ IF k % 10 = 0 \/ k = total
                   THEN /\ Len(emitted') = Len(emitted) + 1
                        /\ SubSeq(emitted', 1, Len(emitted)) = emitted
                        /\ LET ev == emitted'[Len(emitted')]
                           IN  /\ ev.sig = "progress_updated"
                               /\ ev.current = k
                               /\ ev.total = total
                               /\ Abs(ev.progress - (100 * k * FIX) \div total) < 100
                               /\ k = total => ev.progress = 100 * FIX
                   ELSE emitted' = emitted
        /\ \A e \in DOMAIN emitted' :
              emitted'[e].sig = "finished" =>
                  /\ e > 1
                  /\ emitted'[e - 1] = Progress(100 * FIX, total, total) ]_vars

\* a parallel run over eleven rows: progress after the tenth row and after
\* the last, then the final progress event and finished
C15_Witness ==
    /\ pc = "done"
    /\ path = "parallel"
    /\ total > 10
    /\ Len(emitted) = 4
    /\ emitted[1].current = 10
    /\ emitted[2].current = total
    /\ emitted[3] = Progress(100 * FIX, total, total)
    /\ emitted[4].sig = "finished"

\* the rows of the raw list that claim the candidate text of row i
Claimers(i) == { j \in DOMAIN rr_raw : MatchOf(rr_raw[j]) = MatchOf(rr_raw[i]) }
\* the row that should keep it: the maximum score, the smallest index
\* among the rows tied at the maximum
Winner(i) ==
    CHOOSE w \in Claimers(i) :
        \A j \in Claimers(i) :
            \/ SimilarityOf(rr_raw[w]).val > SimilarityOf(rr_raw[j]).val
            \/ SimilarityOf(rr_raw[w]).val = SimilarityOf(rr_raw[j]).val /\ w <= j

\* C16: for each candidate text claimed by several rows, the row that
\* keeps the match after resolution is the one with the maximum score, the
\* smallest row index among those tied at the maximum; every other row
\* claiming that text has lost it.
C16_WinnerRule ==
    rr_pass >= 1 =>
        \A i \in DOMAIN rr_raw :
            (MatchOf(rr_raw[i]) # << >> /\ Cardinality(Claimers(i)) > 1) =>
                IF i = Winner(i)
                THEN rr_rows[i] = rr_raw[i]
                ELSE MatchOf(rr_rows[i]) = << >>

\* a text claimed by three rows, the lowest score first and the two later
\* rows tied at the maximum: the second row keeps it
C16_Witness ==
    /\ rr_pass = 1
    /\ Len(rr_raw) >= 3
    /\ Claimers(1) = {1, 2, 3}
    /\ MatchOf(rr_raw[1]) # << >>
    /\ SimilarityOf(rr_raw[1]).val < SimilarityOf(rr_raw[2]).val
    /\ SimilarityOf(rr_raw[2]).val = SimilarityOf(rr_raw[3]).val
    /\ MatchOf(rr_rows[2]) # << >>
    /\ MatchOf(rr_rows[1]) = << >>
    /\ MatchOf(rr_rows[3]) = << >>

\* the rows a pass without partial results was resolved from
RawRows == ParallelRows
\* row i lost its candidate in the resolution
IsLoser(rows, i) == MatchOf(RawRows[i]) # << >> /\ MatchOf(rows[i]) = << >>

\* C17: in the list sent with finished every loser row has its best-match
\* column, its similarity column and every selected candidate-side column
\* set to the empty string, while its reference text column and every
\* value copied from the reference row are as they were, for every choice
\* of selected columns on the two sides.
C17_LoserClearedReferenceKept ==
    \A e \in FinishedEvents :
        (path = "parallel" \/ FullySequential) =>
            LET rows == emitted[e].result_rows
            IN  \A i \in DOMAIN rows :
                    IsLoser(rows, i) =>
                        /\ SimilarityOf(rows[i]) = EmptyStr
                        /\ \A col \in Range(selected_cand_cols) :
                              col \in DOMAIN rows[i] => rows[i][col] = << >>
                        /\ rows[i][ref_col_name(column_names)]
                              = OrEmpty(Get(reference_rows[i], ref_col, << >>))
                        /\ \A col \in Range(selected_ref_cols) :
                              col \in DOMAIN reference_rows[i]
                                  => /\ col \in DOMAIN rows[i]
                                     /\ rows[i][col] = reference_rows[i][col]

\* ---------------------------------------------------------------------------
\* Conflict resolution as the fan-in step of run()

\* the last n elements of a list
LastRows(rows, n) == SubSeq(rows, Len(rows) - n + 1, Len(rows))

\* C18: run() calls _resolve_candidate_conflicts at most once, and only on a
\* list that holds the result of every reference row (its last total rows are
\* the rows of reference rows 1..total, in that order), never on a list
\* collected part of the way through a loop; every list sent with finished is
\* what that call returned.
C18_ResolverIsSingleFanIn ==
    /\ Len(resolver_calls) <= 1
    /\ \A c \in DOMAIN resolver_calls :
          /\ pc = "done"
          /\ Len(resolver_calls[c]) >= total
          /\ LastRows(resolver_calls[c], total) = ParallelRows
    /\ \A e \in FinishedEvents :
          /\ Len(resolver_calls) = 1
          /\ emitted[e].result_rows =
                _resolve_candidate_conflicts(resolver_calls[1], selected_cand_cols,
                                             column_names)

\* a parallel pass over three rows has ended: the resolver was called on the
\* three collected rows, cleared at least one, and its result was sent
C18_Witness ==
    /\ pc = "done"
    /\ path = "parallel"
    /\ total = 3
    /\ Len(resolver_calls) = 1
    /\ Len(resolver_calls[1]) = 3
    /\ \E e \in FinishedEvents :
          \E i \in 1..3 :
              /\ MatchOf(resolver_calls[1][i]) # << >>
              /\ MatchOf(emitted[e].result_rows[i]) = << >>

\* ---------------------------------------------------------------------------
\* Passthrough of the selected columns by the row processor

\* the reference row that result_rows[i] was made from: after a pool failure
\* the sequential rows follow the rows collected from the pool
RefRowOf(i) == reference_rows[IF i <= processed THEN i ELSE i - processed]

\* the first candidate row, in candidate order, whose match field is the text
FirstRowWith(text) ==
    LET hits == { j \in DOMAIN candidate_rows :
                    OrEmpty(Get(candidate_rows[j], cand_col, << >>)) = text }
    IN  candidate_rows[CHOOSE j \in hits : \A k \in hits : j <= k]

\* C19: every result row collected by a loop holds a copy of every selected
\* reference column that its reference row has; when it has a match, the
\* selected candidate columns it holds have the values of the first
\* candidate row whose match field is the matched text; when it has no
\* match, it holds no value of a candidate row (a selected candidate column
\* it holds is a selected reference column with the reference row's value).
C19_Passthrough ==
    (pc \in {"par_loop", "seq_loop"}) =>
        \A i \in DOMAIN result_rows :
            LET row == result_rows[i]
            IN  /\ \A col \in Range(selected_ref_cols) :
                      col \in DOMAIN RefRowOf(i) =>
                          /\ col \in DOMAIN row
                          /\ row[col] = RefRowOf(i)[col]
                /\ MatchOf(row) # << >> =>
                      \A col \in Range(selected_cand_cols) :
                          col \in DOMAIN FirstRowWith(MatchOf(row)) =>
                              /\ col \in DOMAIN row
                              /\ row[col] = FirstRowWith(MatchOf(row))[col]
                /\ MatchOf(row) = << >> =>
                      \A col \in Range(selected_cand_cols) :
                          col \in DOMAIN row =>
                              /\ col \in Range(selected_ref_cols)
                              /\ col \in DOMAIN RefRowOf(i)

\* ---------------------------------------------------------------------------
\* Bounds of the shortlist handed to scoring

\* the candidate passes the cheap filter for the reference
PassesFilter(ref, cand) ==
    \/ Range(tokenize(ref)) \cap Range(tokenize(cand)) # {}
    \/ _first_token_prefix_ratio(tokenize(ref), tokenize(cand)) >= (6 * FIX) \div 10

\* C20: for a reference with at least one token and a pool with at least one
\* candidate, the shortlist has at least one and at most 64 entries; when no
\* candidate of the pool passes the filter, the shortlist is the first
\* min(64, pool size) candidates, in pool order.
C20_ShortlistBounds ==
    (tokenize(m_ref) # << >> /\ m_cands # << >> /\ DOMAIN m_out # {}) =>
        /\ DOMAIN m_out = {"limited_candidates"}
        /\ Len(m_out.limited_candidates) >= 1
        /\ Len(m_out.limited_candidates) <= 64
        /\ (\A i \in DOMAIN m_cands : ~PassesFilter(m_ref, m_cands[i])) =>
              /\ Len(m_out.limited_candidates) = Min(64, Len(m_cands))
              /\ \A i \in DOMAIN m_out.limited_candidates :
                    m_out.limited_candidates[i].text = m_cands[i]

\* a pool of 66 candidates of which more than 64 pass the filter, with the
\* second one scored higher than the first: the shortlist has 64 entries
\* and does not start with the first candidate of the pool
C20_Witness ==
    /\ Len(m_cands) = 66
    /\ DOMAIN m_out = {"limited_candidates"}
    /\ Cardinality({ i \in DOMAIN m_cands : PassesFilter(m_ref, m_cands[i]) }) > 64
    /\ Len(m_out.limited_candidates) = 64
    /\ m_out.limited_candidates[1].text # m_cands[1]

\* a pool of 66 candidates none of which passes the filter: the shortlist is
\* its first 64 candidates
C20_FallbackReached ==
    /\ Len(m_cands) = 66
    /\ DOMAIN m_out = {"limited_candidates"}
    /\ \A i \in DOMAIN m_cands : ~PassesFilter(m_ref, m_cands[i])
    /\ m_cands[1] # m_cands[2]
    /\ Len(m_out.limited_candidates) = 64

\* ---------------------------------------------------------------------------
\* Ranking of the shortlist

\* max(overlap, prefix_ratio) of a candidate text for a reference text
CheapOf(ref, cand) ==
    Max(DivFix(Cardinality(Range(tokenize(ref)) \cap Range(tokenize(cand))),
               Cardinality(Range(tokenize(ref)))),
        _first_token_prefix_ratio(tokenize(ref), tokenize(cand)))

\* the texts of the pool that pass the filter, in pool order
PassingTexts ==
    LET Passes(cand) == PassesFilter(m_ref, cand)
    IN  SelectSeq(m_cands, Passes)
\* the texts of the shortlist, in its order
ShortlistTextsOut == [ i \in DOMAIN m_out.limited_candidates |-> m_out.limited_candidates[i].text ]
\* the elements of a list of texts that have the cheap score v
WithCheap(texts, v) ==
    LET Has(cand) == CheapOf(m_ref, cand) = v
    IN  SelectSeq(texts, Has)
IsPrefix(s, t) == Len(s) <= Len(t) /\ s = SubSeq(t, 1, Len(s))

\* C21: when at least one candidate passes the filter, the shortlist is the
\* first 64 of the passing candidates in descending order of their cheap
\* score, equal scores in pool order: it has min(64, passing) entries, its
\* scores never increase, and for each score its entries are the first
\* passing candidates with that score, in pool order; a score of which a
\* passing candidate was dropped is not above the score of the 64th entry;
\* when at most 64 pass, all of them are in the shortlist.
C21_ShortlistRanking ==
    (DOMAIN m_out = {"limited_candidates"} /\ PassingTexts # << >>) =>
        LET Ranked(short, passing) ==
                LET Level(v, kept, all) ==
                        /\ IsPrefix(kept, all)
                        /\ Len(kept) < Len(all) =>
                              /\ Len(short) = 64
                              /\ CheapOf(m_ref, short[64]) >= v
                        /\ Len(passing) <= 64 => kept = all
                IN  /\ Len(short) = Min(64, Len(passing))
                    /\ \A p \in 1..(Len(short) - 1) :
                          CheapOf(m_ref, short[p]) >= CheapOf(m_ref, short[p + 1])
                    /\ \A v \in { CheapOf(m_ref, t) : t \in Range(passing) } :
                          Level(v, WithCheap(short, v), WithCheap(passing, v))
        IN  Ranked(ShortlistTextsOut, PassingTexts)

\* a pool of 66 candidates that all pass, with two cheap scores, the first
\* candidate having the lower one: the shortlist starts with the candidates
\* of the higher score and two candidates of the lower score are dropped
C21_Witness ==
    /\ Len(m_cands) = 66
    /\ DOMAIN m_out = {"limited_candidates"}
    /\ Len(PassingTexts) = 66
    /\ Len(m_out.limited_candidates) = 64
    /\ CheapOf(m_ref, m_cands[1]) < CheapOf(m_ref, m_cands[2])
    /\ CheapOf(m_ref, m_out.limited_candidates[64].text) = CheapOf(m_ref, m_cands[1])
    /\ CheapOf(m_ref, m_out.limited_candidates[1].text) > CheapOf(m_ref, m_cands[1])

\* ---------------------------------------------------------------------------
\* The candidate best_match returns

\* the shortlist of the call on m_ref and m_cands
ShortlistOfCall ==
    LimitedCandidates(tokenize(m_ref),
        [ i \in DOMAIN m_cands |-> [text |-> m_cands[i], tokens |-> tokenize(m_cands[i])] ])
\* the combined score of every entry of a shortlist, with the statistics of
\* that shortlist; an entry without tokens is not scored
ScoresOf(short) ==
    LET Scored(stats) ==
            [ p \in DOMAIN short |->
                IF short[p].tokens = << >> THEN -1
                ELSE CombinedScore(tokenize(m_ref), short[p].tokens, stats.df, stats.doc_count) ]
    IN  Scored(_compute_document_frequencies([ p \in DOMAIN short |-> short[p].tokens ]))
\* the positions of a shortlist that attain its maximal score
TopPositions(scores) == { p \in DOMAIN scores : \A q \in DOMAIN scores : scores[q] <= scores[p] }
\* the least element of a non-empty set of numbers
Least(S) == CHOOSE x \in S : \A y \in S : x <= y

C23_TokenSimilaritySymmetric ==
    \A c \in DOMAIN sim_ret :
        /\ sim_ret[c].value >= 0
        /\ sim_ret[c].value <= FIX
        /\ sim_ret[c].value = _token_similarity(sim_ret[c].b, sim_ret[c].a)
        /\ sim_ret[c].hit => sim_ret[c].value = _token_similarity(sim_ret[c].a, sim_ret[c].b)

\* ---------------------------------------------------------------------------
\* The early length rejection of _token_similarity

\* the pair reaches the length test: both non-empty, unequal, neither
\* contains the other
ReachesLengthTest(a, b) ==
    /\ a # << >> /\ b # << >> /\ a # b
    /\ ~(startswith(a, b) \/ startswith(b, a) \/ contains(b, a) \/ contains(a, b))
\* (max_len - |len(a) - len(b)|) / max_len
LengthBound(a, b) == DivFix(Max(Len(a), Len(b)) - Abs(Len(a) - Len(b)), Max(Len(a), Len(b)))

\* C24: a pair of tokens that reaches the length test and is rejected by it
\* (bound below 0.8, value 0) has an alignment ratio below 0.8 as well, so
\* the test never makes a pair ineligible that the full comparison would
\* have made eligible.
C24_LengthRejectionIsPure ==
    \A c \in DOMAIN sim_ret :
        (/\ ReachesLengthTest(sim_ret[c].a, sim_ret[c].b)
         /\ LengthBound(sim_ret[c].a, sim_ret[c].b) < TOKEN_SIM_THRESHOLD) =>
            /\ sim_ret[c].value = 0
            /\ Clamp01(SequenceRatio(sim_ret[c].a, sim_ret[c].b)) < TOKEN_SIM_THRESHOLD

\* ---------------------------------------------------------------------------
\* The output headers of build_output_column_mapping

\* the column is selected, and so is a column of the other file with the
\* same normalized name
SelectedFromBoth(col) ==
    /\ \E r \in Range(map_in.ref_columns_order) \cap map_in.selected_ref_cols :
          _norm(r) = _norm(col)
    /\ \E c \in Range(map_in.cand_columns_order) \cap map_in.selected_cand_cols :
          _norm(c) = _norm(col)
SideSuffix(source) ==
    IF source = "ref" THEN <<"_", "r", "e", "f">> ELSE <<"_", "c", "a", "n", "d">>
EndsWith(s, suffix) ==
    Len(suffix) <= Len(s) /\ SubSeq(s, Len(s) - Len(suffix) + 1, Len(s)) = suffix
\* no two keys have the same header, and no header is a reserved name
InjectiveAndUnreserved(mapping) ==
    /\ \A k1, k2 \in DOMAIN mapping : mapping[k1] = mapping[k2] => k1 = k2
    /\ \A k \in DOMAIN mapping : mapping[k] \notin map_in.reserved_names

TerminalEvents == FinishedEvents \cup ErrorEvents

\* C26: a run emits at most one terminal signal (finished or error, never
\* both, never twice), and nothing, so no progress event, after it.
C26_SingleTerminalSignal ==
    /\ Cardinality(TerminalEvents) <= 1
    /\ \A e \in TerminalEvents : e = Len(emitted) /\ pc = "done"

\* a run that fell back to the sequential loop after the pool had delivered
\* a row has ended: its progress events are followed by the one finished
C26_Witness ==
    /\ pc = "done"
    /\ path = "fallback"
    /\ processed > 0
    /\ Len(emitted) >= 3
    /\ FinishedEvents = {Len(emitted)}
    /\ \A e \in 1..(Len(emitted) - 1) : emitted[e].sig = "progress_updated"

\* ---------------------------------------------------------------------------
\* Progress over a whole run

ProgressEvents == { i \in DOMAIN emitted : emitted[i].sig = "progress_updated" }

\* C27: along the progress events of a run, the completed count and the
\* percentage never decrease, also when the pool fails and the sequential
\* loop takes over.
C27_ProgressMonotone ==
    \A i, j \in ProgressEvents :
        i < j => /\ emitted[i].current <= emitted[j].current
                 /\ emitted[i].progress <= emitted[j].progress


\* ---------------------------------------------------------------------------
\* What clears a row

\* the rows of call c of the resolver that come back without their match
Cleared(c, out) ==
    { i \in DOMAIN resolver_calls[c] :
        MatchOf(resolver_calls[c][i]) # << >> /\ MatchOf(out[i]) = << >> }

\* C28: a row is cleared by _resolve_candidate_conflicts only if another row
\* of the list holds the same matched-candidate text, character for
\* character, with a score at least as high, and that row keeps it; rows
\* matched to different candidate strings do not clear one another.
C28_ClearedOnlyByConflict ==
    \A e \in FinishedEvents : \A c \in DOMAIN resolver_calls :
        LET raw == resolver_calls[c]
            out == emitted[e].result_rows
        IN  \A i \in Cleared(c, out) :
                \E j \in DOMAIN raw \ {i} :
                    /\ MatchOf(raw[j]) = MatchOf(raw[i])
                    /\ RowScore(raw[j], column_names) >= RowScore(raw[i], column_names)
                    /\ MatchOf(out[j]) = MatchOf(raw[j])

\* a run over a candidate file holding 'a o' and 'a o ' has ended; the
\* resolver cleared one row and left a row matched to another string alone
C28_Witness ==
    /\ pc = "done"
    /\ \E x, y \in DOMAIN candidate_rows :
          /\ candidate_rows[x].name # candidate_rows[y].name
          /\ strip(candidate_rows[x].name) = strip(candidate_rows[y].name)
    /\ \E e \in FinishedEvents : \E c \in DOMAIN resolver_calls :
          /\ Cleared(c, emitted[e].result_rows) # {}
          /\ \E i, j \in DOMAIN resolver_calls[c] :
                /\ MatchOf(resolver_calls[c][i]) # << >>
                /\ MatchOf(resolver_calls[c][j]) # << >>
                /\ MatchOf(resolver_calls[c][i]) # MatchOf(resolver_calls[c][j])
                /\ MatchOf(emitted[e].result_rows[j]) # << >>


\* ---------------------------------------------------------------------------
\* The window and its worker threads

\* C29: at most one matching worker is executing its run method at any time.
C29_OneWorkerExecuting ==
    Cardinality({ w \in Threads : isRunning(w) }) <= 1

\* C30: the Run button is disabled while a matching worker is at work, and
\* the Save button is enabled exactly when a result set is stored
\* (_last_results is not None).
C30_UiStateInvariant ==
    /\ (\E w \in Threads : Working(w)) => ~run_button
    /\ save_button <=> _last_results # None

====
